---- MODULE Spec2Model ----
(***************************************************************************)
(* Trading operations core and history store of BinanceSpotTestnetGUI:     *)
(*   - BinanceClient.adjust_quantity and place_order                       *)
(*     (src/libs/exchange/client.py),                                      *)
(*   - the order handlers and the portfolio reset ("liquidation") run      *)
(*     (src/libs/gui/handlers.py and src/app.py).                          *)
(*                                                                         *)
(* Decimal numbers are exact scaled integers: the integer n stands for     *)
(* n * 10^-UnitDigits.  SpecNorm drives the quantity normalizer and the    *)
(* order handlers; Spec drives the liquidation run against a venue whose   *)
(* calls may fail.                                                         *)
(*                                                                         *)
(* Portfolio history store, PortfolioHistory                               *)
(* (src/libs/portfolio/history.py): time is counted in ticks of            *)
(* 1/TicksPerSecond second, so that time.time() has a fraction and         *)
(* int(timestamp) truncates.  SpecHist drives add_snapshot,                *)
(* backfill_history, prune_old_data and get_range_start_time while the     *)
(* wall clock advances.                                                    *)
(* SpecRead adds the read path get_history and calculate_stats to the      *)
(* writers, SpecCap runs backfill_history over windows of 500 to 1999 grid *)
(* points, SpecSave runs save_portfolio_snapshot (src/app.py) between live *)
(* snapshots, and SpecStats calls calculate_stats on lists in any order.   *)
(* SpecDisk follows the document in the history file while the file can    *)
(* stop being writable, and SpecGap runs backfill_history over short       *)
(* windows whose start is no whole second.                                 *)
(* Amounts of quote currency in the store are integers of 0.001 USDT.      *)
(***************************************************************************)
EXTENDS Integers, Sequences, FiniteSets, TLC

VARIABLES
    filters,      \* what get_symbol_filters returns for the traded symbol
    hpc,          \* order-handler position: "off", "idle", "done"
    req,          \* the request being served by the normalizer / a handler
    resp,         \* its outcome
    sent,         \* orders handed to the venue (new_order) by the request
    impl,         \* which reset implementation runs: "handlers" or "app"
    pc,           \* position of the liquidation run
    free,         \* venue: free balance per asset
    locked,       \* venue: locked balance per asset
    price,        \* venue: price of <asset>USDT, 0 = no such pair
    openOrders,   \* venue: number of open orders still on the book
    open_orders,  \* run: the list returned by get_open_orders (order ids)
    cancelCalls,  \* run: order ids a cancel call was sent for, in order
    cancelFailed, \* run: some cancel call raised
    sellable_assets, \* run: Phase 1 / Phase 2 lists
    dust_assets,
    no_pair_assets,
    usdt_balance, \* run: the quote balance read once before the sweep loop
    dustIdx,      \* run: index of the dust asset the sweep loop is at
    sellIdx,      \* run: index of the sellable asset Phase 2 is at (0: not entered)
    orders,       \* run: orders submitted, each with the venue balance then
    result,       \* run: "none", "completed", "failed", "crashed"
    errAt,        \* run: the call whose venue error ended the run ("none")
    startedClean, \* run: started with no open orders and only quote currency
    afterLiquidated, \* run: started right after a run that completed and left
                  \* only quote currency
    now,          \* history: the wall clock, time.time(), in ticks
    snapshots,    \* history: data['snapshots']
    metadata,     \* history: data['metadata']
    last_snapshot_time, \* history: self._last_snapshot_time
    lastOp,       \* history: the last call made on the store and what it returned
    lastLiveAccept, \* history: wall clock of the last live snapshot that was stored
    statsArg,     \* history: the list a direct call of calculate_stats is given
    data_file,    \* history: the document in the history file (NoFile: no file)
    writable      \* history: the history file can be opened for writing

hvars == <<filters, hpc, req, resp, sent>>
lvars == <<impl, pc, free, locked, price, openOrders, open_orders, cancelCalls,
           cancelFailed, sellable_assets, dust_assets, no_pair_assets,
           usdt_balance, dustIdx, sellIdx, orders, result, errAt, startedClean,
           afterLiquidated>>
disk == <<data_file, writable>>
svars == <<now, snapshots, metadata, last_snapshot_time, lastOp, lastLiveAccept,
           statsArg, disk>>
vars == <<hvars, lvars, svars>>

----------------------------------------------------------------------------
(* Decimal arithmetic                                                      *)

\* f"{step_size:.8f}": the number of fractional digits the code formats.
FmtDigits == 8

\* Resolution of the model: one guard digit below the code's format.
UnitDigits == FmtDigits + 1

Pow10(n) == 10 ^ n

Scale == Pow10(UnitDigits)

\* f"{x:.{p}f}" of a non-negative decimal: round half even to p digits.
RoundHalfEven(n, p) ==
    LET g   == Pow10(UnitDigits - p)
        lo  == (n \div g) * g
        rem == n - lo
    IN  IF 2 * rem < g THEN lo
        ELSE IF 2 * rem > g THEN lo + g
        ELSE IF (lo \div g) % 2 = 0 THEN lo ELSE lo + g

\* A plausible slip: strip one digit too many when counting the precision.
PrecisionShort(step_size) ==
    LET r    == RoundHalfEven(step_size, FmtDigits) \div Pow10(UnitDigits - FmtDigits)
        frac == r % Pow10(FmtDigits)
        p    == CHOOSE d \in 0..FmtDigits :
                    /\ frac % Pow10(FmtDigits - d) = 0
                    /\ \A k \in 0..(d - 1) : frac % Pow10(FmtDigits - k) # 0
    IN  IF p > 0 THEN p - 1 ELSE 0

\* s_str = f"{step_size:.8f}".rstrip('0'); precision = digits after the '.'
Precision(step_size) ==
    LET r    == RoundHalfEven(step_size, FmtDigits) \div Pow10(UnitDigits - FmtDigits)
        frac == r % Pow10(FmtDigits)
    IN  CHOOSE d \in 0..FmtDigits :
            /\ frac % Pow10(FmtDigits - d) = 0
            /\ \A k \in 0..(d - 1) : frac % Pow10(FmtDigits - k) # 0

----------------------------------------------------------------------------
(* Symbol filters and the quantity normalizer                              *)

\* get_symbol_filters: None when the symbol is unknown, else the filters by
\* type.  found = FALSE is None; hasLot / hasMkt say which types are present.
NoFilters ==
    [found |-> FALSE, hasLot |-> FALSE, stepSize |-> 0, minQty |-> 0, maxQty |-> 0,
     hasMkt |-> FALSE, mktMinQty |-> 0, mktMaxQty |-> 0]

\* adjust_quantity(self, symbol, quantity): the Decimal floor to the step,
\* rendered at the step's precision.
adjust_quantity(f, quantity) ==
    IF ~f.found THEN quantity
    ELSE IF ~f.hasLot THEN quantity
    ELSE IF f.stepSize <= 0 THEN quantity
    ELSE RoundHalfEven((quantity \div f.stepSize) * f.stepSize, Precision(f.stepSize))

----------------------------------------------------------------------------
(* The client as the rest of the program sees it                           *)

\* Parameters of adjust_quantity besides self.
adjust_quantity_params == {"symbol", "quantity"}

\* The methods class BinanceClient defines.
ClientMethods ==
    {"get_account_info", "get_balances", "get_all_prices", "get_price",
     "get_exchange_info", "get_symbol_filters", "adjust_quantity",
     "get_open_orders", "get_all_orders", "place_order", "cancel_order",
     "get_all_symbols", "calculate_portfolio_value"}

\* The methods class BinanceClientError defines.
ErrorMethods == {"from_client_error", "is_notional_error", "is_lot_size_error"}

\* A call client.adjust_quantity(symbol, quantity, **kwargs): Python binds the
\* arguments before the body runs and raises TypeError on an unknown keyword.
call_adjust_quantity(f, quantity, kwargs) ==
    IF kwargs \subseteq adjust_quantity_params
    THEN [raised |-> "none", value |-> adjust_quantity(f, quantity)]
    ELSE [raised |-> "TypeError", value |-> 0]

\* Python's None for an optional number.
None == 0 - 1

\* place_order: the params handed to new_order.  A given quantity is
\* normalized (again) with adjust_quantity(symbol, quantity).
place_order(f, side, order_type, quantity, quote_order_qty, price_) ==
    [side |-> side, type |-> order_type,
     quantity |-> IF quantity # None THEN adjust_quantity(f, quantity) ELSE None,
     quoteOrderQty |-> IF quantity = None /\ quote_order_qty # None
                       THEN quote_order_qty ELSE None,
     price |-> IF order_type = "LIMIT" THEN price_ ELSE None]

\* What new_order does with an order: accept it, or raise a ClientError that
\* place_order turns into a BinanceClientError of one of these kinds.
VenueOutcomes == {"ok", "notional", "lot_size", "other"}

----------------------------------------------------------------------------
(* Inputs of the normalizer and of the order handlers                      *)

MaxMant == 12
MaxHPrice == 3

MaxRaw == 2 * Scale

StepSizes == {0, Pow10(1), Pow10(4), Pow10(6), 25 * Pow10(7), 5 * Pow10(8), Pow10(9)}
MinQtys == {0, Pow10(7), Pow10(9)}
MaxQtys == {0, Pow10(9)}
MarketLots == {<<0, 0>>, <<5 * Pow10(8), 15 * Pow10(8)>>}

FilterSets ==
    {NoFilters,
     [found |-> TRUE, hasLot |-> FALSE, stepSize |-> 0, minQty |-> 0, maxQty |-> 0,
      hasMkt |-> FALSE, mktMinQty |-> 0, mktMaxQty |-> 0]}
    \cup
    {[found |-> TRUE, hasLot |-> TRUE, stepSize |-> s, minQty |-> mn, maxQty |-> mx,
      hasMkt |-> FALSE, mktMinQty |-> 0, mktMaxQty |-> 0]
        : s \in StepSizes, mn \in MinQtys, mx \in MaxQtys}
    \cup
    {[found |-> TRUE, hasLot |-> TRUE, stepSize |-> s, minQty |-> mn, maxQty |-> mx,
      hasMkt |-> TRUE, mktMinQty |-> m[1], mktMaxQty |-> m[2]]
        : s \in StepSizes, mn \in MinQtys, mx \in MaxQtys, m \in MarketLots}

QtyExps == {0, 3, 5, 7, 8, 9}

Quantities ==
    {me[1] * Pow10(me[2]) :
        me \in {x \in (0..MaxMant) \X QtyExps : x[1] <= MaxRaw \div Pow10(x[2])}}
    \cup {123456 * Pow10(4), 4 * Pow10(5)}

Totals == {0, 1, 2}
BuyPrices == (0 - 1)..MaxHPrice
SellPrices == {0, 5, 10}

HandlerQtys == {0, 4 * Pow10(5), 5 * Pow10(8), 123456 * Pow10(4), 2 * Scale}

OrderTypes == {"LIMIT", "MARKET"}

NoReq == [op |-> "none", order_type |-> "-", quantity |-> 0, total_usdt |-> 0,
          price |-> 0, is_market |-> FALSE]
NoResp == [outcome |-> "none", norm |-> "not_called", value |-> 0]

Request(op, order_type, quantity, total_usdt, price_) ==
    [op |-> op, order_type |-> order_type, quantity |-> quantity,
     total_usdt |-> total_usdt, price |-> price_,
     is_market |-> (order_type = "MARKET")]

\* outcome: what the request ends with; norm: how its adjust_quantity call
\* ended ("not_called", "returned", "TypeError"); value: what that call returned.
Reply(outcome, norm, value) == [outcome |-> outcome, norm |-> norm, value |-> value]

\* total_usdt / price with whole-number total and price, as a scaled quantity.
calc_qty(total_usdt, price_) == (total_usdt * Scale) \div price_

\* quantity * price >= 10.0 for a scaled quantity and a whole-number price.
ValueAtLeast10(quantity, price_) ==
    (quantity \div 10) * price_ + ((quantity % 10) * price_) \div 10 >= Scale

\* The keyword arguments of the calls the code makes.
PlainCall == {"symbol", "quantity"}
FlagCall == {"symbol", "quantity", "is_market_order"}

----------------------------------------------------------------------------
(* The normalizer and the order handlers, one request at a time            *)

\* client.adjust_quantity(symbol, quantity), as place_order and the LIMIT
\* buy-by-total path call it.
Normalize ==
    /\ hpc = "idle"
    /\ \E q \in Quantities :
        LET adj == call_adjust_quantity(filters, q, PlainCall)
        IN  /\ req' = Request("adjust_quantity", "LIMIT", q, 0, 0)
            /\ resp' = Reply(IF adj.raised = "none" THEN "returned" ELSE adj.raised,
                             IF adj.raised = "none" THEN "returned" ELSE adj.raised,
                             adj.value)
    /\ sent' = <<>>
    /\ hpc' = "done"
    /\ UNCHANGED <<filters, lvars, svars>>

\* except BinanceClientError of handle_buy_order / handle_sell_order:
\* is_notional_error() and is_lot_size_error() exist; the handler returns False.
HandlerResult(venue) == IF venue = "ok" THEN "True" ELSE "False"

\* except BinanceClientError of api_buy / api_sell: is_notional_error(), then
\* e.is_insufficient_balance(), which BinanceClientError does not define.
ApiResult(venue) ==
    IF venue = "ok" THEN "True"
    ELSE IF venue = "notional" THEN "False"
    ELSE IF "is_insufficient_balance" \notin ErrorMethods THEN "AttributeError"
    ELSE "False"

\* A plausible slip: the failure logged and the order reported as placed.
PriceRejectedAsPlaced == Reply("True", "not_called", 0)

\* "Buy Failed: Price must be > 0 to calculate quantity from total.": the
\* failure result, with no call made before it.
PriceRejected == Reply("False", "not_called", 0)

\* GUIHandlers.handle_buy_order
handle_buy_order ==
    /\ hpc = "idle"
    /\ \E t \in OrderTypes, q \in HandlerQtys, tot \in Totals, pr \in BuyPrices,
          venue \in VenueOutcomes :
        LET adj  == call_adjust_quantity(filters, q, FlagCall)
            adjT == call_adjust_quantity(filters, calc_qty(tot, pr), PlainCall)
        IN  /\ req' = Request("handle_buy_order", t, q, tot, pr)
            /\ IF q > 0 THEN
                   IF adj.raised # "none"
                   THEN resp' = Reply(adj.raised, adj.raised, 0) /\ sent' = <<>>
                   ELSE /\ sent' = <<place_order(filters, "BUY", t, adj.value, None,
                                                 IF t = "LIMIT" THEN pr ELSE None)>>
                        /\ resp' = Reply(HandlerResult(venue), "returned", adj.value)
               ELSE IF tot > 0 THEN
                   IF t = "MARKET"
                   THEN /\ sent' = <<place_order(filters, "BUY", t, None, tot, None)>>
                        /\ resp' = Reply(HandlerResult(venue), "not_called", 0)
                   ELSE IF pr <= 0
                   THEN resp' = PriceRejected /\ sent' = <<>>
                   ELSE IF adjT.raised # "none"
                   THEN resp' = Reply(adjT.raised, adjT.raised, 0) /\ sent' = <<>>
                   ELSE /\ sent' = <<place_order(filters, "BUY", t, adjT.value, None, pr)>>
                        /\ resp' = Reply(HandlerResult(venue), "returned", adjT.value)
               ELSE resp' = Reply("False", "not_called", 0) /\ sent' = <<>>
    /\ hpc' = "done"
    /\ UNCHANGED <<filters, lvars, svars>>

\* api_buy
api_buy ==
    /\ hpc = "idle"
    /\ \E t \in OrderTypes, q \in HandlerQtys, tot \in Totals, pr \in BuyPrices,
          venue \in VenueOutcomes :
        LET adj  == call_adjust_quantity(filters, q, FlagCall)
            adjT == call_adjust_quantity(filters, calc_qty(tot, pr), PlainCall)
        IN  /\ req' = Request("api_buy", t, q, tot, pr)
            /\ IF q > 0 THEN
                   IF adj.raised # "none"
                   THEN resp' = Reply(adj.raised, adj.raised, 0) /\ sent' = <<>>
                   ELSE IF adj.value <= 0
                   THEN resp' = Reply("False", "returned", adj.value) /\ sent' = <<>>
                   ELSE /\ sent' = <<place_order(filters, "BUY", t, adj.value, None,
                                                 IF t = "LIMIT" THEN pr ELSE None)>>
                        /\ resp' = Reply(ApiResult(venue), "returned", adj.value)
               ELSE IF tot > 0 THEN
                   IF t = "MARKET"
                   THEN /\ sent' = <<place_order(filters, "BUY", t, None, tot, None)>>
                        /\ resp' = Reply(ApiResult(venue), "not_called", 0)
                   ELSE IF pr <= 0
                   THEN resp' = PriceRejected /\ sent' = <<>>
                   ELSE IF adjT.raised # "none"
                   THEN resp' = Reply(adjT.raised, adjT.raised, 0) /\ sent' = <<>>
                   ELSE IF adjT.value <= 0
                   THEN resp' = Reply("False", "returned", adjT.value) /\ sent' = <<>>
                   ELSE /\ sent' = <<place_order(filters, "BUY", t, adjT.value, None, pr)>>
                        /\ resp' = Reply(ApiResult(venue), "returned", adjT.value)
               ELSE resp' = Reply("False", "not_called", 0) /\ sent' = <<>>
    /\ hpc' = "done"
    /\ UNCHANGED <<filters, lvars, svars>>

\* GUIHandlers.handle_sell_order (price stands for the LIMIT price or, for a
\* MARKET order, the current price)
handle_sell_order ==
    /\ hpc = "idle"
    /\ \E t \in OrderTypes, q \in HandlerQtys, pr \in SellPrices, venue \in VenueOutcomes :
        LET adj  == call_adjust_quantity(filters, q, FlagCall)
        IN  /\ req' = Request("handle_sell_order", t, q, 0, pr)
            /\ IF ~ValueAtLeast10(q, pr)
               THEN resp' = Reply("False", "not_called", 0) /\ sent' = <<>>
               ELSE IF adj.raised # "none"
               THEN resp' = Reply(adj.raised, adj.raised, 0) /\ sent' = <<>>
               ELSE /\ sent' = <<place_order(filters, "SELL", t, adj.value, None,
                                             IF t = "LIMIT" THEN pr ELSE None)>>
                    /\ resp' = Reply(HandlerResult(venue), "returned", adj.value)
    /\ hpc' = "done"
    /\ UNCHANGED <<filters, lvars, svars>>

\* api_sell
api_sell ==
    /\ hpc = "idle"
    /\ \E t \in OrderTypes, q \in HandlerQtys, pr \in SellPrices, venue \in VenueOutcomes :
        LET adj  == call_adjust_quantity(filters, q, FlagCall)
        IN  /\ req' = Request("api_sell", t, q, 0, pr)
            /\ IF ~ValueAtLeast10(q, pr)
               THEN resp' = Reply("False", "not_called", 0) /\ sent' = <<>>
               ELSE IF t = "MARKET" /\ "get_max_market_lot_size" \notin ClientMethods
               THEN resp' = Reply("AttributeError", "not_called", 0) /\ sent' = <<>>
               ELSE IF adj.raised # "none"
               THEN resp' = Reply(adj.raised, adj.raised, 0) /\ sent' = <<>>
               ELSE IF adj.value <= 0
               THEN resp' = Reply("False", "returned", adj.value) /\ sent' = <<>>
               ELSE /\ sent' = <<place_order(filters, "SELL", t, adj.value, None,
                                             IF t = "LIMIT" THEN pr ELSE None)>>
                    /\ resp' = Reply(ApiResult(venue), "returned", adj.value)
    /\ hpc' = "done"
    /\ UNCHANGED <<filters, lvars, svars>>

\* The request is answered; the next one may come.
NextRequest ==
    /\ hpc = "done"
    /\ hpc' = "idle"
    /\ req' = NoReq
    /\ resp' = NoResp
    /\ sent' = <<>>
    /\ UNCHANGED <<filters, lvars, svars>>

----------------------------------------------------------------------------
(* The venue and the account the liquidation run works on                  *)

\* value >= 10.0: the minimum notional of Phase 1.
DustThreshold == 10

\* quote_order_qty=11.0 and the guard usdt_balance < 11.0 of the sweep.
BuyAmount == 11

MaxFree == 3
MaxPrice == 5
MaxOpen == 2
MaxPartial == 2

Quote == "USDT"
OtherAssets == <<"BTC", "ETH">>
AllAssets == <<Quote>> \o OtherAssets
AssetSet == {AllAssets[i] : i \in 1..Len(AllAssets)}
OtherSet == AssetSet \ {Quote}

LockedLevels == {0, 1}
UsdtLevels == {0, BuyAmount, BuyAmount + 1}

\* What a run of the reset handler has in its locals before it starts.
NoRun ==
    /\ open_orders = <<>>
    /\ cancelCalls = <<>>
    /\ cancelFailed = FALSE
    /\ sellable_assets = <<>>
    /\ dust_assets = <<>>
    /\ no_pair_assets = <<>>
    /\ usdt_balance = 0
    /\ dustIdx = 0
    /\ sellIdx = 0
    /\ orders = <<>>
    /\ result = "none"
    /\ errAt = "none"

\* get_balances(non_zero_only=True): the balances with free > 0 or locked > 0,
\* in the account's order.
get_balances ==
    LET nz(a) == free[a] > 0 \/ locked[a] > 0
    IN  [i \in 1..Len(SelectSeq(AllAssets, nz)) |->
            [asset |-> SelectSeq(AllAssets, nz)[i],
             free |-> free[SelectSeq(AllAssets, nz)[i]]]]

\* A plausible slip: the threshold compared with > instead of >=.
IsSellableStrict(free_amt, p) == free_amt * p > DustThreshold

\* value = free_amt * price; value >= 10.0
IsSellable(free_amt, p) == free_amt * p >= DustThreshold

\* A plausible slip: the "if pair in prices" test left out, a missing price
\* read as 0.
ClassOfNoPairCheck(b) ==
    IF b.asset # Quote /\ b.free > 0
    THEN IF IsSellable(b.free, price[b.asset]) THEN "sellable" ELSE "dust"
    ELSE "none"

\* Phase 1, one balance: where the classification loop puts it.
ClassOf(b) ==
    IF b.asset # Quote /\ b.free > 0
    THEN IF price[b.asset] > 0
         THEN IF IsSellable(b.free, price[b.asset]) THEN "sellable" ELSE "dust"
         ELSE "unpaired"
    ELSE "none"

\* Phase 1: the list a class ends up as, entries (asset_name, free_amt).
ClassList(bals, c) ==
    LET in(b) == ClassOf(b) = c
        sel == SelectSeq(bals, in)
    IN  [i \in 1..Len(sel) |-> [asset |-> sel[i].asset, amt |-> sel[i].free]]

OnlyQuoteLeft ==
    /\ openOrders = {}
    /\ \A a \in OtherSet : free[a] = 0 /\ locked[a] = 0

\* The ids of the open orders as get_open_orders lists them.
RECURSIVE SeqOfSet(_)
SeqOfSet(S) ==
    IF S = {} THEN <<>>
    ELSE LET m == CHOOSE x \in S : \A y \in S : x <= y
         IN  <<m>> \o SeqOfSet(S \ {m})

----------------------------------------------------------------------------
(* The liquidation run: handle_portfolio_reset / api_reset_portfolio        *)

Finish(res, at) ==
    /\ result' = res
    /\ errAt' = at
    /\ pc' = "done"

\* The handler is entered: "Starting Portfolio Reset..."
StartRun ==
    /\ pc \in {"idle", "done"}
    /\ pc' = "get_open_orders"
    /\ afterLiquidated' = (pc = "done" /\ result = "completed" /\ OnlyQuoteLeft)
    /\ startedClean' = OnlyQuoteLeft
    /\ open_orders' = <<>>
    /\ cancelCalls' = <<>>
    /\ cancelFailed' = FALSE
    /\ sellable_assets' = <<>>
    /\ dust_assets' = <<>>
    /\ no_pair_assets' = <<>>
    /\ usdt_balance' = 0
    /\ dustIdx' = 0
    /\ sellIdx' = 0
    /\ orders' = <<>>
    /\ result' = "none"
    /\ errAt' = "none"
    /\ UNCHANGED <<hvars, svars, impl, free, locked, price, openOrders>>

\* A plausible slip: the run goes on to the price fetch with the open orders
\* still on the book.
GetOpenOrdersNoCancel ==
    /\ pc = "get_open_orders"
    /\ \/ /\ open_orders' = SeqOfSet(openOrders)
          /\ pc' = "get_all_prices"
          /\ UNCHANGED <<result, errAt>>
       \/ /\ Finish("failed", "get_open_orders")
          /\ UNCHANGED open_orders
    /\ UNCHANGED <<hvars, svars, sellIdx, impl, free, locked, price, openOrders, cancelCalls,
                   cancelFailed, sellable_assets, dust_assets, no_pair_assets,
                   usdt_balance, dustIdx, orders, startedClean, afterLiquidated>>

\* open_orders = client.get_open_orders()
GetOpenOrders ==
    /\ pc = "get_open_orders"
    /\ \/ /\ open_orders' = SeqOfSet(openOrders)
          /\ pc' = IF openOrders # {} THEN "cancel" ELSE "get_all_prices"
          /\ UNCHANGED <<result, errAt>>
       \/ /\ Finish("failed", "get_open_orders")
          /\ UNCHANGED open_orders
    /\ UNCHANGED <<hvars, svars, sellIdx, impl, free, locked, price, openOrders, cancelCalls,
                   cancelFailed, sellable_assets, dust_assets, no_pair_assets,
                   usdt_balance, dustIdx, orders, startedClean, afterLiquidated>>

\* for order in open_orders: client.cancel_order(...) -- no try around the
\* call, so a BinanceClientError leaves the loop for the outer except.
CancelOrder ==
    /\ pc = "cancel"
    /\ Len(cancelCalls) < Len(open_orders)
    /\ LET id == open_orders[Len(cancelCalls) + 1]
       IN  /\ cancelCalls' = Append(cancelCalls, id)
           /\ \/ /\ openOrders' = openOrders \ {id}
                 /\ pc' = IF Len(cancelCalls) + 1 = Len(open_orders)
                          THEN "get_all_prices" ELSE "cancel"
                 /\ UNCHANGED <<result, errAt, cancelFailed>>
              \/ /\ cancelFailed' = TRUE
                 /\ Finish("failed", "cancel_order")
                 /\ UNCHANGED openOrders
    /\ UNCHANGED <<hvars, svars, sellIdx, impl, free, locked, price, open_orders,
                   sellable_assets, dust_assets, no_pair_assets,
                   usdt_balance, dustIdx, orders, startedClean, afterLiquidated>>

\* prices = client.get_all_prices()
GetAllPrices ==
    /\ pc = "get_all_prices"
    /\ \/ /\ pc' = "get_balances"
          /\ UNCHANGED <<result, errAt>>
       \/ Finish("failed", "get_all_prices")
    /\ UNCHANGED <<hvars, svars, sellIdx, impl, free, locked, price, openOrders, open_orders,
                   cancelCalls, cancelFailed, sellable_assets, dust_assets,
                   no_pair_assets, usdt_balance, dustIdx, orders, startedClean,
                   afterLiquidated>>

\* A plausible slip: the sweep entered without the "if dust_assets:" guard.
GetBalancesAndClassifyNoGuard ==
    /\ pc = "get_balances"
    /\ \/ /\ sellable_assets' = ClassList(get_balances, "sellable")
          /\ dust_assets' = ClassList(get_balances, "dust")
          /\ no_pair_assets' = ClassList(get_balances, "unpaired")
          /\ pc' = IF sellable_assets' # <<>> THEN "sell" ELSE "sweep_start"
          /\ UNCHANGED <<result, errAt>>
       \/ /\ Finish("failed", "get_balances")
          /\ UNCHANGED <<sellable_assets, dust_assets, no_pair_assets>>
    /\ UNCHANGED <<hvars, svars, sellIdx, impl, free, locked, price, openOrders, open_orders,
                   cancelCalls, cancelFailed, usdt_balance, dustIdx, orders,
                   startedClean, afterLiquidated>>

\* balances = client.get_balances(non_zero_only=True), then the Phase 1 loop.
GetBalancesAndClassify ==
    /\ pc = "get_balances"
    /\ \/ /\ sellable_assets' = ClassList(get_balances, "sellable")
          /\ dust_assets' = ClassList(get_balances, "dust")
          /\ no_pair_assets' = ClassList(get_balances, "unpaired")
          /\ IF sellable_assets' # <<>> THEN pc' = "sell" /\ UNCHANGED <<result, errAt>>
             ELSE IF dust_assets' # <<>>
             THEN pc' = "sweep_start" /\ UNCHANGED <<result, errAt>>
             ELSE Finish("completed", "none")
       \/ /\ Finish("failed", "get_balances")
          /\ UNCHANGED <<sellable_assets, dust_assets, no_pair_assets>>
    /\ UNCHANGED <<hvars, svars, sellIdx, impl, free, locked, price, openOrders, open_orders,
                   cancelCalls, cancelFailed, usdt_balance, dustIdx, orders,
                   startedClean, afterLiquidated>>

\* Phase 2, first sellable asset: min_qty = client.get_min_market_lot_size(pair).
\* BinanceClient has no such method: AttributeError, which neither
\* "except BinanceClientError" catches.
SellSellable ==
    /\ pc = "sell"
    /\ "get_min_market_lot_size" \notin ClientMethods
    /\ sellIdx' = 1
    /\ Finish("crashed", "none")
    /\ UNCHANGED <<hvars, svars, impl, free, locked, price, openOrders, open_orders,
                   cancelCalls, cancelFailed, sellable_assets, dust_assets,
                   no_pair_assets, usdt_balance, dustIdx, orders, startedClean,
                   afterLiquidated>>

\* Phase 3 entry: account = client.get_account_info(); usdt_balance = free USDT.
\* The read is outside the per-asset try.
SweepStart ==
    /\ pc = "sweep_start"
    /\ \/ /\ usdt_balance' = free[Quote]
          /\ dustIdx' = 1
          /\ pc' = "sweep"
          /\ UNCHANGED <<result, errAt>>
       \/ /\ Finish("failed", "get_account_info")
          /\ UNCHANGED <<usdt_balance, dustIdx>>
    /\ UNCHANGED <<hvars, svars, sellIdx, impl, free, locked, price, openOrders, open_orders,
                   cancelCalls, cancelFailed, sellable_assets, dust_assets,
                   no_pair_assets, orders, startedClean, afterLiquidated>>

\* A plausible slip: the loop stays at the dust asset it is at.
SameDust(i) == i

\* for ... in dust_assets: the loop goes to the next dust asset.
NextDust(i) == i + 1

\* except BinanceClientError inside the sweep loop: handlers.py asks
\* e.is_liquidity_error() first, app.py only logs.
SweepExcept ==
    IF impl = "handlers" /\ "is_liquidity_error" \notin ErrorMethods
    THEN Finish("crashed", "none") /\ UNCHANGED dustIdx
    ELSE dustIdx' = NextDust(dustIdx) /\ pc' = "sweep" /\ UNCHANGED <<result, errAt>>

\* The sweep loop is past its last dust asset: "Portfolio Reset Complete."
SweepDone ==
    /\ pc = "sweep"
    /\ dustIdx > Len(dust_assets)
    /\ Finish("completed", "none")
    /\ UNCHANGED <<hvars, svars, sellIdx, impl, free, locked, price, openOrders, open_orders,
                   cancelCalls, cancelFailed, sellable_assets, dust_assets,
                   no_pair_assets, usdt_balance, dustIdx, orders, startedClean,
                   afterLiquidated>>

\* if usdt_balance < 11.0: handlers.py continues with the next asset,
\* app.py breaks out of the loop.
SweepSkip ==
    /\ pc = "sweep"
    /\ dustIdx <= Len(dust_assets)
    /\ usdt_balance < BuyAmount
    /\ IF impl = "handlers"
       THEN dustIdx' = NextDust(dustIdx) /\ UNCHANGED <<pc, result, errAt>>
       ELSE Finish("completed", "none") /\ UNCHANGED dustIdx
    /\ UNCHANGED <<hvars, svars, sellIdx, impl, free, locked, price, openOrders, open_orders,
                   cancelCalls, cancelFailed, sellable_assets, dust_assets,
                   no_pair_assets, usdt_balance, orders, startedClean, afterLiquidated>>

\* What the venue does with the market BUY of the sweep: it rejects the order
\* (place_order raises BinanceClientError), lets it expire unfilled, fills a
\* part and expires the rest, or fills it.  spent is the quote currency paid.
BuyReplies ==
    {[status |-> "ERROR", executedQty |-> 0, spent |-> 0],
     [status |-> "EXPIRED", executedQty |-> 0, spent |-> 0],
     [status |-> "FILLED", executedQty |-> 1, spent |-> BuyAmount]}
    \cup {[status |-> "EXPIRED", executedQty |-> 1, spent |-> q] :
              q \in {x \in 1..MaxPartial : x < BuyAmount}}

\* A plausible slip: only an unfilled order counts as not executed.
ZeroExecutionUnfilledOnly(status, executedQty) == executedQty = 0

\* buy_result.get('status') == 'EXPIRED' or
\* float(buy_result.get('executedQty', 0)) == 0
ZeroExecution(status, executedQty) == status = "EXPIRED" \/ executedQty = 0

\* place_order(pair, 'BUY', 'MARKET', quote_order_qty=11.0) and the check of
\* its result.
SweepBuy ==
    /\ pc = "sweep"
    /\ dustIdx <= Len(dust_assets)
    /\ usdt_balance >= BuyAmount
    /\ \E reply \in BuyReplies :
        LET a == dust_assets[dustIdx].asset
        IN  /\ reply.spent <= free[Quote]
            /\ orders' = Append(orders,
                                [side |-> "BUY", asset |-> a, quote |-> BuyAmount,
                                 usdt |-> free[Quote], status |-> reply.status,
                                 executedQty |-> reply.executedQty])
            /\ free' = IF reply.executedQty > 0
                       THEN [free EXCEPT ![Quote] = @ - reply.spent,
                                         ![a] = @ + reply.executedQty]
                       ELSE free
            /\ IF reply.status = "ERROR"
               THEN SweepExcept
               ELSE IF ZeroExecution(reply.status, reply.executedQty)
               THEN dustIdx' = NextDust(dustIdx) /\ UNCHANGED <<pc, result, errAt>>
               ELSE pc' = "sweep_refresh" /\ UNCHANGED <<dustIdx, result, errAt>>
    /\ UNCHANGED <<hvars, svars, sellIdx, impl, locked, price, openOrders, open_orders,
                   cancelCalls, cancelFailed, sellable_assets, dust_assets,
                   no_pair_assets, usdt_balance, startedClean, afterLiquidated>>

\* After a filled buy: sub_acc = client.get_account_info() and the read of
\* the asset's free balance; a BinanceClientError goes to the loop's except.
SweepRefresh ==
    /\ pc = "sweep_refresh"
    /\ \/ pc' = "sweep_sell" /\ UNCHANGED <<dustIdx, result, errAt>>
       \/ SweepExcept
    /\ UNCHANGED <<hvars, svars, sellIdx, impl, free, locked, price, openOrders, open_orders,
                   cancelCalls, cancelFailed, sellable_assets, dust_assets,
                   no_pair_assets, usdt_balance, orders, startedClean, afterLiquidated>>

\* qty_to_sell = client.adjust_quantity(pair, new_bal, is_market_order=True):
\* TypeError, which no except of the handler catches; the SELL that follows in
\* the text is not reached.
SweepSell ==
    /\ pc = "sweep_sell"
    /\ call_adjust_quantity(NoFilters, free[dust_assets[dustIdx].asset],
                            {"symbol", "quantity", "is_market_order"}).raised
          = "TypeError"
    /\ Finish("crashed", "none")
    /\ UNCHANGED <<hvars, svars, sellIdx, impl, free, locked, price, openOrders, open_orders,
                   cancelCalls, cancelFailed, sellable_assets, dust_assets,
                   no_pair_assets, usdt_balance, dustIdx, orders, startedClean,
                   afterLiquidated>>

----------------------------------------------------------------------------
(* The portfolio history store: PortfolioHistory (libs/portfolio/history.py) *)

\* Resolution of the clock and of the float timestamps: ticks per second.
TicksPerSecond == 2

Sec(n) == n * TicksPerSecond

\* self._min_snapshot_interval = 60
min_snapshot_interval == 60

\* abs(existing_time - timestamp) < 30
DuplicateTolerance == 30

\* days_to_keep * 86400
SecondsPerDay == 86400

\* RANGE_SECONDS
RANGE_SECONDS ==
    [r \in {"1d", "1w", "1m", "6m", "1y"} |->
        CASE r = "1d" -> 86400
          [] r = "1w" -> 604800
          [] r = "1m" -> 2592000
          [] r = "6m" -> 15552000
          [] r = "1y" -> 31536000]

\* INTERVALS
INTERVALS ==
    [i \in {"1m", "5m", "15m", "1h", "4h", "1d"} |->
        CASE i = "1m" -> 60
          [] i = "5m" -> 300
          [] i = "15m" -> 900
          [] i = "1h" -> 3600
          [] i = "4h" -> 14400
          [] i = "1d" -> 86400]

Abs(x) == IF x < 0 THEN 0 - x ELSE x

\* int(timestamp): the whole seconds of a float, truncated toward zero.
IntSeconds(t) ==
    IF t >= 0 THEN (t \div TicksPerSecond) * TicksPerSecond
    ELSE 0 - (((0 - t) \div TicksPerSecond) * TicksPerSecond)

\* Amounts of quote currency are integers of 0.001 USDT.
\* round(x, 2): to the nearest 0.01, a tie to the even neighbour.
Round2(x) ==
    LET a   == Abs(x)
        lo  == (a \div 10) * 10
        rem == a - lo
        r   == IF 2 * rem < 10 THEN lo
               ELSE IF 2 * rem > 10 THEN lo + 10
               ELSE IF (lo \div 10) % 2 = 0 THEN lo ELSE lo + 10
    IN  IF x < 0 THEN 0 - r ELSE r

\* The metadata of a store that never held a snapshot (_load_data defaults).
NoMetadata ==
    [first_snapshot |-> None, last_snapshot |-> None,
     total_snapshots |-> 0, backfilled_snapshots |-> 0]

MinOf(S) == CHOOSE x \in S : \A y \in S : x <= y

\* max(timestamps), as the minimum of the negated values.
MaxOf(S) == 0 - MinOf({0 - x : x \in S})

\* A plausible slip: backfilled_snapshots counted as the live ones.
update_metadata_live(snaps, md) ==
    IF snaps # <<>>
    THEN [first_snapshot |-> MinOf({snaps[i].timestamp : i \in DOMAIN snaps}),
          last_snapshot |-> MaxOf({snaps[i].timestamp : i \in DOMAIN snaps}),
          total_snapshots |-> Len(snaps),
          backfilled_snapshots |->
              Cardinality({i \in DOMAIN snaps : ~snaps[i].is_backfilled})]
    ELSE md

\* _update_metadata: recomputed from the snapshots, left alone when there are
\* none ("if snapshots:").
update_metadata(snaps, md) ==
    IF snaps # <<>>
    THEN [first_snapshot |-> MinOf({snaps[i].timestamp : i \in DOMAIN snaps}),
          last_snapshot |-> MaxOf({snaps[i].timestamp : i \in DOMAIN snaps}),
          total_snapshots |-> Len(snaps),
          backfilled_snapshots |->
              Cardinality({i \in DOMAIN snaps : snaps[i].is_backfilled})]
    ELSE md

\* The list is in ascending order of timestamp.
IsSortedByTimestamp(snaps) ==
    \A i \in 1..(Len(snaps) - 1) : snaps[i].timestamp <= snaps[i + 1].timestamp

\* list.sort(key=lambda x: x['timestamp']): a stable sort, here by insertion.
\* When the list before its last element is in order already, the last
\* element goes behind the elements that are not larger and no other moves.
RECURSIVE SortByTimestamp(_)
SortByTimestamp(snaps) ==
    IF Len(snaps) <= 1 THEN snaps
    ELSE LET init  == SubSeq(snaps, 1, Len(snaps) - 1)
             front == IF IsSortedByTimestamp(init) THEN init
                      ELSE SortByTimestamp(init)
             x     == snaps[Len(snaps)]
             k     == Cardinality({i \in DOMAIN front :
                                      front[i].timestamp <= x.timestamp})
         IN  SubSeq(front, 1, k) \o <<x>> \o SubSeq(front, k + 1, Len(front))

\* A plausible slip: the new snapshot appended and the list not sorted.
StoreUnsorted(snaps, snapshot) == Append(snaps, snapshot)

\* self.data['snapshots'].append(snapshot); self.data['snapshots'].sort(...)
Store(snaps, snapshot) == SortByTimestamp(Append(snaps, snapshot))

\* A plausible slip: only an equal timestamp counts as a duplicate.
IsDuplicateExact(snaps, timestamp) ==
    \E i \in DOMAIN snaps : snaps[i].timestamp = timestamp

\* any existing_time with abs(existing_time - timestamp) < 30
IsDuplicate(snaps, timestamp) ==
    \E i \in DOMAIN snaps :
        Abs(snaps[i].timestamp - timestamp) < Sec(DuplicateTolerance)

\* A plausible slip: the debounce measured with the duplicate tolerance.
DebouncedShort(is_backfilled, current_time, lst) ==
    ~is_backfilled /\ current_time - lst < Sec(DuplicateTolerance)

\* if not is_backfilled: if current_time - self._last_snapshot_time <
\* self._min_snapshot_interval: return False
Debounced(is_backfilled, current_time, lst) ==
    ~is_backfilled /\ current_time - lst < Sec(min_snapshot_interval)

\* The history file before the first _save_data.
NoFile == [snapshots |-> <<>>, metadata |-> None]

\* self.data as json.dump writes it.
Document(snaps, md) == [snapshots |-> snaps, metadata |-> md]

\* A plausible slip: the document is written on every call, accepted or not.
save_data_always(saved, doc, old, can_write) == IF can_write THEN doc ELSE old

\* _save_data after a call that may have changed self.data: the file holds
\* the whole document when the call saved and the file could be opened, and
\* is left as it was on IOError.
save_data(saved, doc, old, can_write) == IF saved /\ can_write THEN doc ELSE old

\* The store as add_snapshot reads and writes it.
StoreOf(snaps, md, lst) ==
    [snapshots |-> snaps, metadata |-> md, last_snapshot_time |-> lst]

\* add_snapshot(timestamp, ..., is_backfilled) called at wall clock
\* current_time on store st: what it returns and the store it leaves.
\* A plausible slip: a near-duplicate overwrites the snapshot it is close to.
add_snapshot_merge(st, timestamp, total_value, is_backfilled, current_time) ==
    LET debounced == Debounced(is_backfilled, current_time, st.last_snapshot_time)
        lst == IF is_backfilled THEN st.last_snapshot_time ELSE current_time
        snapshot == [timestamp |-> IntSeconds(timestamp),
                     total_value |-> Round2(total_value),
                     is_backfilled |-> is_backfilled]
        apart(x) == Abs(x.timestamp - timestamp) >= Sec(DuplicateTolerance)
        snaps == Store(SelectSeq(st.snapshots, apart), snapshot)
    IN  IF debounced
        THEN [ret |-> FALSE, why |-> "debounce", store |-> st]
        ELSE [ret |-> ~IsDuplicate(st.snapshots, timestamp),
              why |-> IF IsDuplicate(st.snapshots, timestamp)
                      THEN "duplicate" ELSE "accepted",
              store |-> StoreOf(snaps, update_metadata(snaps, st.metadata), lst)]

add_snapshot(st, timestamp, total_value, is_backfilled, current_time) ==
    LET debounced == Debounced(is_backfilled, current_time, st.last_snapshot_time)
        lst == IF is_backfilled THEN st.last_snapshot_time ELSE current_time
    IN  IF debounced
        THEN [ret |-> FALSE, why |-> "debounce", store |-> st]
        ELSE IF IsDuplicate(st.snapshots, timestamp)
        THEN [ret |-> FALSE, why |-> "duplicate",
              store |-> StoreOf(st.snapshots, st.metadata, lst)]
        ELSE LET snapshot == [timestamp |-> IntSeconds(timestamp),
                              total_value |-> Round2(total_value),
                              is_backfilled |-> is_backfilled]
                 snaps == Store(st.snapshots, snapshot)
             IN  [ret |-> TRUE, why |-> "accepted",
                  store |-> StoreOf(snaps, update_metadata(snaps, st.metadata), lst)]

\* prune_old_data(days_to_keep) at wall clock current_time: the snapshots kept.
\* A plausible slip: a snapshot exactly at the cutoff is dropped.
RetainedStrict(snaps, days_to_keep, current_time) ==
    LET cutoff_time == current_time - Sec(days_to_keep * SecondsPerDay)
        keep(s) == s.timestamp > cutoff_time
    IN  SelectSeq(snaps, keep)

Retained(snaps, days_to_keep, current_time) ==
    LET cutoff_time == current_time - Sec(days_to_keep * SecondsPerDay)
        keep(s) == s.timestamp >= cutoff_time
    IN  SelectSeq(snaps, keep)

\* datetime(datetime.now().year, 1, 1).timestamp(), with years of 365 days
\* counted from the clock's origin.
YearStart(current_time) ==
    (current_time \div Sec(RANGE_SECONDS["1y"])) * Sec(RANGE_SECONDS["1y"])

TimeRanges == {"1d", "1w", "1m", "6m", "1y", "ytd", "all", "other"}

\* get_range_start_time(time_range) at wall clock current_time.
get_range_start_time(md, time_range, current_time) ==
    IF time_range = "ytd" THEN YearStart(current_time)
    ELSE IF time_range = "all"
    THEN IF md.first_snapshot # None /\ md.first_snapshot # 0
         THEN md.first_snapshot
         ELSE current_time - Sec(RANGE_SECONDS["1y"])
    ELSE IF time_range \in DOMAIN RANGE_SECONDS
    THEN current_time - Sec(RANGE_SECONDS[time_range])
    ELSE current_time - Sec(604800)

\* get_history(start_time, end_time); None stands for an argument left out.
get_history(snaps, start_time, end_time) ==
    LET inRange(x) == /\ (start_time # None => x.timestamp >= start_time)
                      /\ (end_time # None => x.timestamp <= end_time)
    IN  SelectSeq(snaps, inRange)

\* The integer nearest to num / den (den > 0), a tie to the even neighbour:
\* round() of a quotient.
RoundRatio(num, den) ==
    LET a   == Abs(num)
        q   == a \div den
        rem == a - q * den
        r   == IF 2 * rem < den THEN q
               ELSE IF 2 * rem > den THEN q + 1
               ELSE IF q % 2 = 0 THEN q ELSE q + 1
    IN  IF num < 0 THEN 0 - r ELSE r

NoStats == [start_value |-> 0, end_value |-> 0, change_percent |-> 0,
            min_value |-> 0, max_value |-> 0]

\* A plausible slip: the first and last element taken without sorting.
calculate_stats_unsorted(snaps) ==
    IF snaps = <<>> THEN NoStats
    ELSE LET values == {snaps[i].total_value : i \in DOMAIN snaps}
             start_value == snaps[1].total_value
             end_value == snaps[Len(snaps)].total_value
         IN  [start_value |-> Round2(start_value),
              end_value |-> Round2(end_value),
              change_percent |->
                  IF start_value > 0
                  THEN 10 * RoundRatio((end_value - start_value) * 10000, start_value)
                  ELSE 0,
              min_value |-> Round2(MinOf(values)),
              max_value |-> Round2(MaxOf(values))]

\* calculate_stats(snapshots): every amount in 0.001 USDT, change_percent in
\* 0.001 percent; round(x, 2) leaves multiples of 10.
calculate_stats(snaps) ==
    IF snaps = <<>> THEN NoStats
    ELSE LET sorted_snapshots == SortByTimestamp(snaps)
             values == {snaps[i].total_value : i \in DOMAIN snaps}
             start_value == sorted_snapshots[1].total_value
             end_value == sorted_snapshots[Len(sorted_snapshots)].total_value
         IN  [start_value |-> Round2(start_value),
              end_value |-> Round2(end_value),
              change_percent |->
                  IF start_value > 0
                  THEN 10 * RoundRatio((end_value - start_value) * 10000, start_value)
                  ELSE 0,
              min_value |-> Round2(MinOf(values)),
              max_value |-> Round2(MaxOf(values))]

\* max_backfill = 500
max_backfill == 500

\* A plausible slip: the grid without the test for snapshots nearby.
ExpectedTimesAll(snaps, start_time, end_time, interval_seconds) ==
    LET first == IntSeconds(start_time)
        last  == IntSeconds(end_time)
        step  == Sec(interval_seconds)
        n     == IF first <= last THEN (last - first) \div step + 1 ELSE 0
    IN  [i \in 1..n |-> first + (i - 1) * step]

\* The grid of backfill_history: int(start_time), stepping by the interval up
\* to int(end_time), without the timestamps within half an interval of a
\* snapshot that exists when the call starts.
ExpectedTimes(snaps, start_time, end_time, interval_seconds) ==
    LET first == IntSeconds(start_time)
        last  == IntSeconds(end_time)
        step  == Sec(interval_seconds)
        n     == IF first <= last THEN (last - first) \div step + 1 ELSE 0
        grid  == [i \in 1..n |-> first + (i - 1) * step]
        uncovered(t) ==
            ~\E j \in DOMAIN snaps : 2 * Abs(t - snaps[j].timestamp) < step
    IN  SelectSeq(grid, uncovered)

\* A plausible slip: the slice by step without the cut to max_backfill.
SubsampleUncut(expected_times) ==
    IF Len(expected_times) > max_backfill
    THEN LET step == Len(expected_times) \div max_backfill
         IN  [i \in 1..((Len(expected_times) - 1) \div step + 1) |->
                 expected_times[(i - 1) * step + 1]]
    ELSE expected_times

\* expected_times[::step][:max_backfill] when the grid is longer than the cap.
Subsample(expected_times) ==
    IF Len(expected_times) > max_backfill
    THEN LET step  == Len(expected_times) \div max_backfill
             slice == [i \in 1..((Len(expected_times) - 1) \div step + 1) |->
                          expected_times[(i - 1) * step + 1]]
         IN  SubSeq(slice, 1, IF Len(slice) < max_backfill
                              THEN Len(slice) ELSE max_backfill)
    ELSE expected_times

\* The clients a store is given: none, the BinanceClient of this repository,
\* or a client that provides get_historical_prices.
HistClients == {"none", "BinanceClient", "historical"}

\* How the price fetches of one backfill call end, by position in the grid.
FetchPatterns == {"all_ok", "all_raise", "all_zero", "odd_raise"}

\* The value of the portfolio at time t: what calculate_portfolio_data, or
\* the holdings priced with get_historical_prices, give for that instant.
PortfolioValue(t) == 90000 + ((t \div TicksPerSecond) % 7) * 20008

\* One iteration of the backfill loop up to "if total_value > 0":
\* "raise" (caught by except Exception), "zero" (no positive value), "ok".
\* BinanceClient has no get_historical_prices: AttributeError every time.
FetchOutcome(client, pattern, i) ==
    IF client = "BinanceClient" /\ "get_historical_prices" \notin ClientMethods
    THEN "raise"
    ELSE CASE pattern = "all_ok" -> "ok"
           [] pattern = "all_raise" -> "raise"
           [] pattern = "all_zero" -> "zero"
           [] pattern = "odd_raise" -> IF i % 2 = 1 THEN "raise" ELSE "ok"

\* A plausible slip: added_count incremented for every timestamp tried.
BackfillStepCountsAll(acc, expected_times, i, client, pattern) ==
    IF FetchOutcome(client, pattern, i) = "ok"
    THEN LET r == add_snapshot(acc.store, expected_times[i],
                               PortfolioValue(expected_times[i]), TRUE, 0)
         IN  [store |-> r.store, added_count |-> acc.added_count + 1,
              fetches |-> acc.fetches + 1]
    ELSE [acc EXCEPT !.fetches = acc.fetches + 1,
                     !.added_count = acc.added_count + 1]

\* One iteration of "for timestamp in expected_times": the fetch, and
\* add_snapshot(..., is_backfilled=True) when it gave a positive value.
BackfillStep(acc, expected_times, i, client, pattern) ==
    IF FetchOutcome(client, pattern, i) = "ok"
    THEN LET r == add_snapshot(acc.store, expected_times[i],
                               PortfolioValue(expected_times[i]), TRUE, 0)
         IN  [store |-> r.store,
              added_count |-> IF r.ret THEN acc.added_count + 1 ELSE acc.added_count,
              fetches |-> acc.fetches + 1]
    ELSE [acc EXCEPT !.fetches = acc.fetches + 1]

\* The iterations lo..hi of the loop, in order: those of the first half of
\* the range, then those of the second half, on what the first half left
\* (every iteration counts as a fetch, so the first half leaves fetches = mid).
RECURSIVE BackfillRange(_, _, _, _, _, _)
BackfillRange(acc, expected_times, lo, hi, client, pattern) ==
    IF lo > hi THEN acc
    ELSE IF lo = hi THEN BackfillStep(acc, expected_times, lo, client, pattern)
    ELSE LET mid   == (lo + hi) \div 2
             first == BackfillRange(acc, expected_times, lo, mid, client, pattern)
         IN  IF first.fetches >= mid
             THEN BackfillRange(first, expected_times, mid + 1, hi, client, pattern)
             ELSE first

\* for timestamp in expected_times: ...; return added_count
BackfillLoop(st, expected_times, i, client, pattern, added_count) ==
    BackfillRange([store |-> st, added_count |-> added_count, fetches |-> i - 1],
                  expected_times, i, Len(expected_times), client, pattern)

\* backfill_history(current_assets, start_time, end_time, interval) on store st:
\* the store it leaves, the count it returns, the number of calls of
\* get_historical_prices, the uncovered grid and the timestamps asked for.
backfill_history(st, client, start_time, end_time, interval, pattern) ==
    IF client = "none"
    THEN [store |-> st, added_count |-> 0, fetches |-> 0, grid |-> <<>>,
          fetched |-> <<>>]
    ELSE LET interval_seconds ==
                 IF interval \in DOMAIN INTERVALS THEN INTERVALS[interval] ELSE 3600
             grid ==
                 ExpectedTimes(st.snapshots, start_time, end_time, interval_seconds)
             expected_times == Subsample(grid)
             r == BackfillLoop(st, expected_times, 1, client, pattern, 0)
         IN  [store |-> r.store, added_count |-> r.added_count,
              fetches |-> r.fetches, grid |-> grid, fetched |-> expected_times]

\* The wall clock when the store is created, and the instants it is used at.
StartTime == Sec(3 * SecondsPerDay)

MaxSnaps == 2

ClockOffsets == {0, Sec(29) + 1, Sec(59) + 1, Sec(60)}
Clock == {StartTime + d : d \in ClockOffsets}

\* Timestamps handed to add_snapshot besides the wall clock itself.
StampInputs ==
    {StartTime - Sec(2 * SecondsPerDay) + 1,
     StartTime - Sec(2 * SecondsPerDay) + Sec(30),
     StartTime - Sec(10)}

DaysToKeep == {0, 1, 365}

\* The windows backfill_history is called with: (start_time, interval); they
\* end now.
BackfillWindows ==
    {<<StartTime - Sec(30), "1m">>, <<StartTime - Sec(SecondsPerDay), "1d">>}

\* The backfill calls made: (client, window, how the price fetches end).  The
\* fetches of BinanceClient all end the same way, and no client makes none.
BackfillCalls ==
    {<<"none", w, "all_raise">> : w \in {<<StartTime - Sec(30), "1m">>}}
    \cup {<<"BinanceClient", w, "all_raise">> : w \in BackfillWindows}
    \cup {<<"historical", w, p>> : w \in BackfillWindows, p \in FetchPatterns}

\* The ranges get_range_start_time is asked for.
RangeInputs == {"all", "1d"}

\* What a call leaves to observe besides its return value: nothing, ...
NoDetail == [kind |-> "none"]

\* ... or, for backfill_history, the interval, how the fetches ended, their
\* number, the uncovered grid and the timestamps asked for.
BackfillDetail(interval, pattern, r) ==
    [kind |-> "backfill", interval |-> interval, pattern |-> pattern,
     fetches |-> r.fetches, grid |-> r.grid, fetched |-> r.fetched]

NoOp == [op |-> "none", timestamp |-> 0, is_backfilled |-> FALSE, at |-> 0,
         ret |-> FALSE, why |-> "none", value |-> 0, detail |-> NoDetail]

Op(op, timestamp, is_backfilled, ret, why, value) ==
    [op |-> op, timestamp |-> timestamp, is_backfilled |-> is_backfilled,
     at |-> now, ret |-> ret, why |-> why, value |-> value, detail |-> NoDetail]

\* The store's variables while the history store is not driven.
StoreOff ==
    /\ now = 0
    /\ snapshots = <<>>
    /\ metadata = NoMetadata
    /\ last_snapshot_time = 0
    /\ lastOp = NoOp
    /\ lastLiveAccept = None
    /\ data_file = NoFile
    /\ writable = TRUE

HistoryOff ==
    /\ StoreOff
    /\ statsArg = <<>>

\* PortfolioHistory.__init__ with no history file yet.
InitHist ==
    /\ now = StartTime
    /\ snapshots = <<>>
    /\ metadata = NoMetadata
    /\ last_snapshot_time = 0
    /\ lastOp = NoOp
    /\ lastLiveAccept = None
    /\ statsArg = <<>>
    /\ data_file = NoFile
    /\ writable = TRUE

\* Time passes between two calls.
AdvanceClock ==
    /\ \E t \in Clock : t > now /\ now' = t
    /\ UNCHANGED <<snapshots, metadata, last_snapshot_time, lastOp, lastLiveAccept>>
    /\ UNCHANGED <<hvars, lvars, statsArg, disk>>

\* A call of add_snapshot: live with the wall clock as timestamp
\* (save_portfolio_snapshot), or with a timestamp of the caller's.
AddSnapshot ==
    /\ Len(snapshots) < MaxSnaps
    /\ \E timestamp \in StampInputs \cup {now}, is_backfilled \in BOOLEAN :
        LET r == add_snapshot(StoreOf(snapshots, metadata, last_snapshot_time),
                              timestamp, PortfolioValue(timestamp), is_backfilled, now)
        IN  /\ snapshots' = r.store.snapshots
            /\ metadata' = r.store.metadata
            /\ last_snapshot_time' = r.store.last_snapshot_time
            /\ lastLiveAccept' = IF r.ret /\ ~is_backfilled THEN now ELSE lastLiveAccept
            /\ lastOp' = Op("add_snapshot", timestamp, is_backfilled, r.ret, r.why, 0)
            /\ data_file' = save_data(r.ret,
                                      Document(r.store.snapshots, r.store.metadata),
                                      data_file, writable)
    /\ UNCHANGED now
    /\ UNCHANGED <<hvars, lvars, statsArg, writable>>

\* A call of backfill_history for a window that ends now.
Backfill ==
    /\ Len(snapshots) < MaxSnaps
    /\ \E call \in BackfillCalls :
        LET client == call[1]
            w == call[2]
            r == backfill_history(StoreOf(snapshots, metadata, last_snapshot_time),
                                  client, w[1], now, w[2], call[3])
        IN  /\ snapshots' = r.store.snapshots
            /\ metadata' = r.store.metadata
            /\ lastOp' = Op("backfill_history", w[1], TRUE,
                            r.added_count > 0, client, r.added_count)
            /\ data_file' = save_data(r.added_count > 0,
                                      Document(r.store.snapshots, r.store.metadata),
                                      data_file, writable)
    /\ UNCHANGED <<now, last_snapshot_time, lastLiveAccept>>
    /\ UNCHANGED <<hvars, lvars, statsArg, writable>>

\* The sizes of the grids of the long windows: start_time lies n - 1 minutes
\* before now.
CapGridSizes == {500, 501, 999, 1000, 1499, 1999}

\* The backfill calls made over long windows: (client, grid size, how the
\* price fetches end).
CapCalls ==
    {<<"BinanceClient", n, "all_raise">> : n \in CapGridSizes}
    \cup {<<"historical", n, "all_zero">> : n \in CapGridSizes}
    \cup {<<"historical", n, "odd_raise">> : n \in {999, 1499}}
    \cup {<<"historical", n, "all_ok">> : n \in {501, 1999}}

\* A call of backfill_history with interval '1m' for a long window that ends
\* now, as the first call on the store or right after one backfilled
\* add_snapshot.
BackfillLarge ==
    /\ now = StartTime
    /\ \/ lastOp = NoOp
       \/ /\ lastOp.op = "add_snapshot" /\ lastOp.ret /\ lastOp.is_backfilled
          /\ Len(snapshots) = 1
    /\ \E call \in CapCalls :
        LET client == call[1]
            start_time == now - Sec((call[2] - 1) * INTERVALS["1m"])
            r == backfill_history(StoreOf(snapshots, metadata, last_snapshot_time),
                                  client, start_time, now, "1m", call[3])
        IN  /\ snapshots' = r.store.snapshots
            /\ metadata' = r.store.metadata
            /\ lastOp' = [Op("backfill_history", start_time, TRUE,
                             r.added_count > 0, client, r.added_count)
                          EXCEPT !.detail = BackfillDetail("1m", call[3], r)]
            /\ data_file' = save_data(r.added_count > 0,
                                      Document(r.store.snapshots, r.store.metadata),
                                      data_file, writable)
    /\ UNCHANGED <<now, last_snapshot_time, lastLiveAccept>>
    /\ UNCHANGED <<hvars, lvars, statsArg, writable>>

\* The windows of the backfills whose grid is looked at: (start_time,
\* interval), with a start_time that is no whole second, as the caller's
\* time.time() - range is; they end now.
GapWindows ==
    {<<StartTime - Sec(240) + 1, "1m">>, <<StartTime - Sec(SecondsPerDay) + 1, "1d">>}

\* How the fetches of these backfills end.
GapPatterns == {"all_ok", "odd_raise"}

\* A call of backfill_history for a window of GapWindows that ends now, with
\* the grid it worked on left to observe.
BackfillGap ==
    /\ Len(snapshots) < MaxSnaps
    /\ \E w \in GapWindows, pattern \in GapPatterns :
        \E r \in {backfill_history(StoreOf(snapshots, metadata, last_snapshot_time),
                                   "historical", w[1], now, w[2], pattern)} :
            /\ snapshots' = r.store.snapshots
            /\ metadata' = r.store.metadata
            /\ lastOp' = [Op("backfill_history", w[1], TRUE,
                             r.added_count > 0, "historical", r.added_count)
                          EXCEPT !.detail = BackfillDetail(w[2], pattern, r)]
            /\ data_file' = save_data(r.added_count > 0,
                                      Document(r.store.snapshots, r.store.metadata),
                                      data_file, writable)
    /\ UNCHANGED <<now, last_snapshot_time, lastLiveAccept>>
    /\ UNCHANGED <<hvars, lvars, statsArg, writable>>

\* A call of prune_old_data(days_to_keep).
Prune ==
    /\ \E days_to_keep \in DaysToKeep :
        LET kept == Retained(snapshots, days_to_keep, now)
            removed_count == Len(snapshots) - Len(kept)
        IN  /\ snapshots' = kept
            /\ metadata' = IF removed_count > 0
                           THEN update_metadata(kept, metadata) ELSE metadata
            /\ lastOp' = Op("prune_old_data", days_to_keep, FALSE,
                            removed_count > 0, "none", removed_count)
            /\ data_file' = save_data(removed_count > 0,
                                      Document(kept, update_metadata(kept, metadata)),
                                      data_file, writable)
    /\ UNCHANGED <<now, last_snapshot_time, lastLiveAccept>>
    /\ UNCHANGED <<hvars, lvars, statsArg, writable>>

\* A call of get_range_start_time(time_range).
RangeStart ==
    /\ \E time_range \in RangeInputs :
        lastOp' = Op("get_range_start_time", 0, FALSE, TRUE, time_range,
                     get_range_start_time(metadata, time_range, now))
    /\ UNCHANGED <<now, snapshots, metadata, last_snapshot_time, lastLiveAccept>>
    /\ UNCHANGED <<hvars, lvars, statsArg, disk>>

\* The read path of api_portfolio_history: get_range_start_time, get_history
\* up to now, calculate_stats of the list returned.
History ==
    /\ \E time_range \in RangeInputs :
        LET start_time == get_range_start_time(metadata, time_range, now)
            list == get_history(snapshots, start_time, now)
        IN  lastOp' = [Op("get_history", start_time, FALSE, TRUE, time_range, Len(list))
                       EXCEPT !.detail = [kind |-> "history", snapshots |-> list,
                                          stats |-> calculate_stats(list)]]
    /\ UNCHANGED <<now, snapshots, metadata, last_snapshot_time, lastLiveAccept>>
    /\ UNCHANGED <<hvars, lvars, statsArg, disk>>

\* The history file's directory stops or starts being writable (open(...,'w')
\* raises IOError or not).
DiskChange ==
    /\ writable' = ~writable
    /\ UNCHANGED <<now, snapshots, metadata, last_snapshot_time, lastOp, lastLiveAccept,
                   statsArg, data_file>>
    /\ UNCHANGED <<hvars, lvars>>

\* What calculate_portfolio_data reports as portfolio_value at time t: the
\* value of the portfolio, or nothing of value.
PortfolioValues(t) == {0, PortfolioValue(t)}

\* save_portfolio_snapshot(force): returns False when the portfolio has no
\* positive value, else calls add_snapshot(timestamp=time.time(), ...) as a
\* live snapshot; force is not passed on.
SavePortfolioSnapshot ==
    /\ Len(snapshots) < MaxSnaps
    /\ \E force \in BOOLEAN, portfolio_value \in PortfolioValues(now) :
        IF portfolio_value <= 0
        THEN /\ lastOp' = [Op("save_portfolio_snapshot", now, FALSE, FALSE, "no_value", 0)
                           EXCEPT !.detail = [kind |-> "save", force |-> force]]
             /\ UNCHANGED <<snapshots, metadata, last_snapshot_time, lastLiveAccept,
                            data_file>>
        ELSE LET r == add_snapshot(StoreOf(snapshots, metadata, last_snapshot_time),
                                   now, portfolio_value, FALSE, now)
             IN  /\ snapshots' = r.store.snapshots
                 /\ metadata' = r.store.metadata
                 /\ last_snapshot_time' = r.store.last_snapshot_time
                 /\ lastLiveAccept' = IF r.ret THEN now ELSE lastLiveAccept
                 /\ lastOp' = [Op("save_portfolio_snapshot", now, FALSE, r.ret, r.why, 0)
                               EXCEPT !.detail = [kind |-> "save", force |-> force]]
                 /\ data_file' = save_data(r.ret,
                                           Document(r.store.snapshots, r.store.metadata),
                                           data_file, writable)
    /\ UNCHANGED now
    /\ UNCHANGED <<hvars, lvars, statsArg, writable>>

\* The lists calculate_stats is called with directly: snapshots in any order.
MaxStatsLen == 3
StatsValues == {0, 3000, 4000}
StatsSnapshots ==
    [timestamp : {Sec(1), Sec(2), Sec(3)}, total_value : StatsValues]
StatsLists == UNION {[1..n -> StatsSnapshots] : n \in 0..MaxStatsLen}

\* A call of calculate_stats(statsArg).
CalculateStats ==
    /\ lastOp' = [Op("calculate_stats", 0, FALSE, TRUE, "none", Len(statsArg))
                  EXCEPT !.detail = [kind |-> "stats",
                                     stats |-> calculate_stats(statsArg)]]
    /\ UNCHANGED <<now, snapshots, metadata, last_snapshot_time, lastLiveAccept,
                   statsArg>>
    /\ UNCHANGED <<hvars, lvars, disk>>

----------------------------------------------------------------------------
(* Specifications                                                          *)

Impls == {"handlers", "app"}

\* The liquidation run's variables while only the order handlers are driven.
LiquidationOff ==
    /\ impl = "handlers"
    /\ pc = "off"
    /\ free = [a \in AssetSet |-> 0]
    /\ locked = [a \in AssetSet |-> 0]
    /\ price = [a \in OtherSet |-> 0]
    /\ openOrders = {}
    /\ NoRun
    /\ startedClean = FALSE
    /\ afterLiquidated = FALSE

\* The order handlers' variables while only the liquidation run is driven.
HandlersOff ==
    /\ filters = NoFilters
    /\ hpc = "off"
    /\ req = NoReq
    /\ resp = NoResp
    /\ sent = <<>>

InitNorm ==
    /\ filters \in FilterSets
    /\ hpc = "idle"
    /\ req = NoReq
    /\ resp = NoResp
    /\ sent = <<>>
    /\ LiquidationOff
    /\ HistoryOff

NextNorm ==
    \/ Normalize
    \/ handle_buy_order
    \/ api_buy
    \/ handle_sell_order
    \/ api_sell
    \/ NextRequest

SpecNorm == InitNorm /\ [][NextNorm]_vars

Init ==
    /\ HandlersOff
    /\ HistoryOff
    /\ impl \in Impls
    /\ pc = "idle"
    /\ free \in {f \in [AssetSet -> 0..(BuyAmount + 1)] :
                    /\ f[Quote] \in UsdtLevels
                    /\ \A a \in OtherSet : f[a] <= MaxFree}
    \* locked reaches the run only through get_balances' non-zero filter,
    \* which it decides where free = 0
    /\ locked \in {l \in [AssetSet -> LockedLevels] :
                      \A a \in AssetSet : free[a] > 0 \/ a = Quote => l[a] = 0}
    /\ price \in [OtherSet -> 0..MaxPrice]
    /\ openOrders \in {1..k : k \in 0..MaxOpen}
    /\ NoRun
    /\ startedClean = FALSE
    /\ afterLiquidated = FALSE

Next ==
    \/ StartRun
    \/ GetOpenOrders
    \/ CancelOrder
    \/ GetAllPrices
    \/ GetBalancesAndClassify
    \/ SellSellable
    \/ SweepStart
    \/ SweepDone
    \/ SweepSkip
    \/ SweepBuy
    \/ SweepRefresh
    \/ SweepSell

Spec == Init /\ [][Next]_vars

InitStore ==
    /\ HandlersOff
    /\ LiquidationOff
    /\ InitHist

NextHist ==
    \/ AdvanceClock
    \/ AddSnapshot
    \/ Backfill
    \/ Prune
    \/ RangeStart

SpecHist == InitStore /\ [][NextHist]_vars

NextCap ==
    \/ AdvanceClock
    \/ AddSnapshot
    \/ BackfillLarge

SpecCap == InitStore /\ [][NextCap]_vars

\* The store backfilled over short windows.
NextGap ==
    \/ AdvanceClock
    \/ AddSnapshot
    \/ BackfillGap

SpecGap == InitStore /\ [][NextGap]_vars

\* The store with its readers: every writer, and the read path of the
\* history endpoint.
NextRead ==
    \/ AdvanceClock
    \/ AddSnapshot
    \/ Backfill
    \/ Prune
    \/ History

SpecRead == InitStore /\ [][NextRead]_vars

\* The manual and the periodic snapshot of the running application.
NextSave ==
    \/ AdvanceClock
    \/ AddSnapshot
    \/ SavePortfolioSnapshot

SpecSave == InitStore /\ [][NextSave]_vars

\* The store and its file: add_snapshot, with a file that cannot always be
\* written.
NextDisk ==
    \/ AdvanceClock
    \/ AddSnapshot
    \/ DiskChange

SpecDisk == InitStore /\ [][NextDisk]_vars

\* calculate_stats called on its own, with every list of StatsLists.
InitStats ==
    /\ HandlersOff
    /\ LiquidationOff
    /\ StoreOff
    /\ statsArg \in StatsLists

NextStats == CalculateStats

SpecStats == InitStats /\ [][NextStats]_vars

----------------------------------------------------------------------------
(* Claims about the quantity normalizer (checked under SpecNorm)           *)

\* A request is answered and the symbol has a LOT_SIZE filter with a step.
Answered == hpc = "done"
LotStep == filters.found /\ filters.hasLot /\ filters.stepSize > 0

\* The bounds the specification selects for an order type: MARKET_LOT_SIZE's
\* for a market order when that filter's maxQty > 0, LOT_SIZE's otherwise.
SelectedBounds(f, is_market) ==
    IF is_market /\ f.hasMkt /\ f.mktMaxQty > 0
    THEN [minQty |-> f.mktMinQty, maxQty |-> f.mktMaxQty]
    ELSE [minQty |-> f.minQty, maxQty |-> f.maxQty]

InBounds(v, b) == v = 0 \/ (b.minQty <= v /\ (b.maxQty > 0 => v <= b.maxQty))

\* C1: with a LOT_SIZE stepSize > 0 and a raw quantity >= 0, every quantity
\* adjust_quantity returns, and every quantity place_order hands to the
\* venue, is an exact integer multiple of stepSize.
C1_StepMultiple ==
    Answered /\ LotStep =>
        /\ resp.norm = "returned" => resp.value % filters.stepSize = 0
        /\ \A i \in DOMAIN sent :
               sent[i].quantity # None => sent[i].quantity % filters.stepSize = 0

\* C1 witness: stepSize 0.001, raw 1.23456, returned 1.234.
C1_Witness ==
    /\ Answered
    /\ req.op = "adjust_quantity"
    /\ filters.hasLot
    /\ filters.stepSize = Pow10(6)
    /\ req.quantity = 123456 * Pow10(4)
    /\ resp.norm = "returned"
    /\ resp.value = 1234 * Pow10(6)

\* C2: a returned quantity is never strictly between 0 and the applicable
\* minQty: a step-quantized quantity below minQty comes back as exactly 0.
C2_BelowMinIsZero ==
    Answered /\ LotStep /\ resp.norm = "returned" =>
        ~(0 < resp.value /\ resp.value < SelectedBounds(filters, req.is_market).minQty)

\* C3: for a raw quantity above the applicable maxQty (maxQty > 0) the
\* returned quantity does not exceed maxQty.
C3_NeverAboveMax ==
    /\ Answered
    /\ req.op = "adjust_quantity"
    /\ LotStep
    /\ resp.norm = "returned"
    /\ SelectedBounds(filters, req.is_market).maxQty > 0
    /\ req.quantity > SelectedBounds(filters, req.is_market).maxQty
    => resp.value <= SelectedBounds(filters, req.is_market).maxQty

\* C4: every normalizer call of a request returns a quantity that is 0 or
\* lies within the bounds selected for the request's order type
\* (MARKET_LOT_SIZE's for a market order when its maxQty > 0, LOT_SIZE's
\* otherwise), quantized by LOT_SIZE's step.
C4_BoundSelection ==
    Answered /\ LotStep /\ resp.norm # "not_called" =>
        /\ resp.norm = "returned"
        /\ InBounds(resp.value, SelectedBounds(filters, req.is_market))
        /\ resp.value % filters.stepSize = 0

\* C5: no normalizer call made by the order handlers ends in an error: it
\* returns a quantity >= 0.
C5_NeverRaises ==
    Answered /\ resp.norm # "not_called" =>
        resp.norm = "returned" /\ resp.value >= 0

----------------------------------------------------------------------------
(* Claims about the liquidation run (checked under Spec)                   *)

\* The fetches that precede the classification.
PreFetches == {"get_open_orders", "get_all_prices", "get_balances"}

\* How often an asset occurs in one of the run's lists.
Occurs(list, a) == Cardinality({i \in DOMAIN list : list[i].asset = a})

\* The classification has been made and no order has changed a balance since.
Classified ==
    \/ pc \in {"sell", "sweep_start"}
    \/ pc = "done" /\ result \in {"completed", "crashed"} /\ dustIdx = 0

\* C6: a run started on an account with no open orders and only quote
\* currency sends no cancel call and submits no order, and it returns success
\* whenever the venue answers its three fetches (a failed fetch is the only
\* other way it ends).
C6_Idempotent ==
    startedClean =>
        /\ cancelCalls = <<>>
        /\ orders = <<>>
        /\ pc = "done" =>
               \/ result = "completed"
               \/ result = "failed" /\ errAt \in PreFetches

\* C6 witness: a second run, started right after a run that completed and left
\* only quote currency, has completed.
C6_Witness ==
    /\ pc = "done"
    /\ startedClean
    /\ afterLiquidated
    /\ result = "completed"
    /\ free[Quote] > 0

\* C7: after Phase 1 every non-quote asset with free > 0 is in exactly one of
\* sellable / dust / unpaired: unpaired iff it has no USDT price, sellable iff
\* free * price >= 10, dust iff free * price < 10; the quote asset and the
\* assets with free = 0 are in none.
C7_Partition ==
    Classified =>
        \A a \in AssetSet :
            LET inS == Occurs(sellable_assets, a)
                inD == Occurs(dust_assets, a)
                inU == Occurs(no_pair_assets, a)
            IN  IF a # Quote /\ free[a] > 0
                THEN /\ inS + inD + inU = 1
                     /\ inU = 1 <=> price[a] = 0
                     /\ inS = 1 <=> (price[a] > 0 /\ free[a] * price[a] >= DustThreshold)
                     /\ inD = 1 <=> (price[a] > 0 /\ free[a] * price[a] < DustThreshold)
                ELSE inS + inD + inU = 0

\* C7 witness: one asset worth exactly 10 is sellable while the other asset is
\* dust, and USDT is held too.
C7_Witness ==
    /\ pc = "sell"
    /\ free[Quote] > 0
    /\ \E i \in DOMAIN sellable_assets :
           sellable_assets[i].amt * price[sellable_assets[i].asset] = DustThreshold
    /\ dust_assets # <<>>

\* C8: when a cancel call fails, every open order of the fetched list is
\* still sent a cancel call and the run goes on to Phase 1.
C8_CancelFailureIsolated ==
    pc = "done" /\ cancelFailed =>
        /\ Len(cancelCalls) = Len(open_orders)
        /\ errAt # "cancel_order"

\* C9: the run ends with the failure result only if one of the fetches before
\* the classification failed.
C9_FailOnlyBeforeClassify ==
    result = "failed" => errAt \in PreFetches

\* C10: no dust-sweep BUY is submitted while the account's free quote
\* balance is below the buy amount of 11.
C10_NoBuyBelowBuyAmount ==
    \A i \in DOMAIN orders :
        orders[i].side = "BUY" => orders[i].usdt >= BuyAmount

\* C11: Phase 2 isolates its assets: a run that entered Phase 2 and ended has
\* been at every sellable asset, and has gone on to Phase 3 when there is dust.
C11_Phase2SiblingsIsolated ==
    pc = "done" /\ sellIdx > 0 =>
        /\ sellIdx = Len(sellable_assets)
        /\ dust_assets # <<>> => (dustIdx > 0 \/ errAt = "get_account_info")

\* C12: a run that entered the sweep loop with a quote balance the guard lets
\* pass ends only after the loop has been at every dust asset.
C12_SweepNeverAborted ==
    pc = "done" /\ dustIdx > 0 /\ usdt_balance >= BuyAmount =>
        dustIdx > Len(dust_assets)

\* C13: a run that ends has reached 'completed' or 'aborted' (the failure
\* result).
C13_EndsCompletedOrAborted ==
    pc = "done" => result \in {"completed", "failed"}

----------------------------------------------------------------------------
(* Claims about the portfolio history store (checked under SpecHist)       *)

\* The stored timestamps.
Stamps == {snapshots[i].timestamp : i \in DOMAIN snapshots}

\* C14: no two stored snapshots have timestamps less than 30 seconds apart.
C14_NoNearDuplicates ==
    \A i, j \in DOMAIN snapshots :
        i # j => Abs(snapshots[i].timestamp - snapshots[j].timestamp)
                     >= Sec(DuplicateTolerance)

\* C14 witness: two snapshots stored exactly 30 seconds apart.
C14_Witness ==
    /\ Len(snapshots) = 2
    /\ snapshots[2].timestamp - snapshots[1].timestamp = Sec(DuplicateTolerance)

\* C15: the stored series is sorted by timestamp ascending.
C15_Sorted ==
    \A i, j \in DOMAIN snapshots :
        i < j => snapshots[i].timestamp <= snapshots[j].timestamp

\* C15 witness: the last call stored a snapshot older than one already stored.
C15_Witness ==
    /\ lastOp.op = "add_snapshot"
    /\ lastOp.ret
    /\ Len(snapshots) = 2
    /\ snapshots[1].timestamp = IntSeconds(lastOp.timestamp)

\* The last call was an add_snapshot on an empty store.
FirstToEmpty ==
    /\ lastOp.op = "add_snapshot"
    /\ Len(snapshots) = IF lastOp.ret THEN 1 ELSE 0

\* This step is a call of add_snapshot.
AddStep == lastOp'.op = "add_snapshot" /\ lastOp' # lastOp

\* C16 as claimed: of two consecutive add_snapshot calls, the first on an
\* empty store, the first is accepted and the second is accepted exactly
\* when the two timestamps differ by 30 seconds or more.
C16_TwoAddsAsClaimed ==
    [][FirstToEmpty /\ AddStep =>
          /\ lastOp.ret
          /\ lastOp'.ret <=> Abs(lastOp'.timestamp - lastOp.timestamp)
                                 >= Sec(DuplicateTolerance)]_vars

\* C16 amended: of two consecutive add_snapshot calls, the first on an empty
\* store and neither dropped by the 60-second debounce, the first is accepted
\* and the second is accepted exactly when its timestamp lies 30 seconds or
\* more from the stored (whole-second) timestamp of the first.
C16_TwoAdds ==
    [][FirstToEmpty /\ AddStep /\ lastOp.why # "debounce" /\ lastOp'.why # "debounce" =>
          /\ lastOp.ret
          /\ lastOp'.ret <=> Abs(lastOp'.timestamp - IntSeconds(lastOp.timestamp))
                                 >= Sec(DuplicateTolerance)]_vars

\* C16 witness: the second call was rejected as a duplicate of the only
\* stored snapshot.
C16_Witness ==
    /\ lastOp.op = "add_snapshot"
    /\ lastOp.why = "duplicate"
    /\ Len(snapshots) = 1
    /\ snapshots[1].timestamp # IntSeconds(lastOp.timestamp)

\* C17: a live snapshot is never stored less than 60 seconds of wall clock
\* after the previous stored live snapshot, and a backfilled add_snapshot is
\* never rejected by the debounce.
C17_Debounce ==
    [][/\ (AddStep /\ lastOp'.ret /\ ~lastOp'.is_backfilled /\ lastLiveAccept # None)
              => now - lastLiveAccept >= Sec(min_snapshot_interval)
       /\ (AddStep /\ lastOp'.is_backfilled) => lastOp'.why # "debounce"]_vars

\* C17 witness: a live attempt 59.5 s after a stored live snapshot was dropped
\* by the debounce.
C17_Witness ==
    /\ lastOp.op = "add_snapshot"
    /\ lastOp.why = "debounce"
    /\ lastLiveAccept # None
    /\ lastOp.at - lastLiveAccept = Sec(min_snapshot_interval - 1) + 1

\* C18: a live add_snapshot is dropped by the debounce only if a live
\* snapshot was stored in the 60 seconds before the call.
C18_WindowFromAcceptedWrite ==
    lastOp.op = "add_snapshot" /\ lastOp.why = "debounce" =>
        /\ lastLiveAccept # None
        /\ lastOp.at - lastLiveAccept < Sec(min_snapshot_interval)

\* C19: after an accepted add_snapshot the metadata agrees with the series:
\* first and last are the minimum and maximum stored timestamp, total is the
\* number of snapshots, backfilled the number of snapshots flagged so.
C19_MetadataConsistent ==
    lastOp.op = "add_snapshot" /\ lastOp.ret =>
        /\ metadata.first_snapshot \in Stamps
        /\ \A t \in Stamps : metadata.first_snapshot <= t
        /\ metadata.last_snapshot \in Stamps
        /\ \A t \in Stamps : t <= metadata.last_snapshot
        /\ metadata.total_snapshots = Len(snapshots)
        /\ metadata.backfilled_snapshots =
               Cardinality({i \in DOMAIN snapshots : snapshots[i].is_backfilled})

\* C19 witness: an accepted add_snapshot left one live and one backfilled
\* snapshot.
C19_Witness ==
    /\ lastOp.op = "add_snapshot"
    /\ lastOp.ret
    /\ Len(snapshots) = 2
    /\ metadata.backfilled_snapshots = 1

\* C20: get_range_start_time('all') returns the earliest stored timestamp,
\* and now - 31536000 exactly when no snapshot is stored.
C20_AllRangeStart ==
    lastOp.op = "get_range_start_time" /\ lastOp.why = "all" =>
        lastOp.value = IF snapshots = <<>>
                       THEN lastOp.at - Sec(RANGE_SECONDS["1y"])
                       ELSE MinOf(Stamps)

\* This step is a call of backfill_history.
BackfillCall == lastOp'.op = "backfill_history" /\ lastOp' # lastOp

\* C21 (checked under SpecCap): one call of backfill_history makes at most
\* 500 calls of get_historical_prices and adds at most 500 snapshots, whatever
\* the size of the grid.
C21_BackfillCap ==
    [][BackfillCall =>
          /\ lastOp'.detail.fetches <= 500
          /\ Len(lastOp'.detail.fetched) <= 500
          /\ Len(snapshots') - Len(snapshots) <= 500
          /\ lastOp'.value <= 500]_vars

\* C21 witness: a call over an uncovered grid of more than 500 points made 500
\* fetches and added 500 snapshots.
C21_Witness ==
    /\ lastOp.op = "backfill_history"
    /\ Len(lastOp.detail.grid) > max_backfill
    /\ lastOp.detail.fetches = max_backfill
    /\ lastOp.value = max_backfill

\* The even spacing of 500 points over a grid of n: n / 500, rounded up.
EvenSpacing(n) == (n + max_backfill - 1) \div max_backfill

\* C22 (checked under SpecCap): when the uncovered grid has more than 500
\* points, the timestamps retained are spread over the whole grid: no point of
\* the grid lies farther than one even spacing from a retained one.
C22_EvenSubsample ==
    lastOp.op = "backfill_history" /\ Len(lastOp.detail.grid) > max_backfill =>
        LET grid     == lastOp.detail.grid
            n        == Len(grid)
            retained == {lastOp.detail.fetched[q] : q \in DOMAIN lastOp.detail.fetched}
        IN  \A p \in 1..n :
                \E p2 \in (p - EvenSpacing(n))..(p + EvenSpacing(n)) :
                    p2 \in 1..n /\ grid[p2] \in retained

\* C23 (checked under SpecCap): in a call of backfill_history a timestamp
\* whose price fetch fails adds no snapshot, every timestamp of the grid is
\* still fetched and one whose fetch gives a value is stored, and the count
\* returned is the number of snapshots the call added to the series.
C23_BackfillFailureIsolated ==
    [][BackfillCall =>
          LET d      == lastOp'.detail
              before == {snapshots[i].timestamp : i \in DOMAIN snapshots}
              after  == {snapshots'[i].timestamp : i \in DOMAIN snapshots'}
          IN  /\ d.fetches = Len(d.fetched)
              /\ \A i \in DOMAIN d.fetched :
                    IF FetchOutcome(lastOp'.why, d.pattern, i) = "ok"
                    THEN d.fetched[i] \in after
                    ELSE d.fetched[i] \notin after \ before
              /\ lastOp'.value = Len(snapshots') - Len(snapshots)
              /\ lastOp'.value = Cardinality(after \ before)]_vars

\* C23 witness: the first fetch of a call failed and a later timestamp of the
\* same call was stored.
C23_Witness ==
    /\ lastOp.op = "backfill_history"
    /\ lastOp.why = "historical"
    /\ lastOp.detail.pattern = "odd_raise"
    /\ lastOp.detail.fetches >= 2
    /\ lastOp.value >= 1

\* This step is a call of prune_old_data.
PruneCall == lastOp'.op = "prune_old_data" /\ lastOp' # lastOp

\* C24 (checked under SpecHist): prune_old_data(days_to_keep) removes exactly
\* the snapshots whose timestamp is below now - days_to_keep * 86400, returns
\* the number removed, and leaves the retained snapshots unchanged and in the
\* same relative order.
C24_PruneExact ==
    [][PruneCall =>
          LET cutoff_time == now - Sec(lastOp'.timestamp * SecondsPerDay)
              after == {snapshots'[j] : j \in DOMAIN snapshots'}
              stays(x) == x \in after
          IN  /\ \A i \in DOMAIN snapshots :
                    snapshots[i].timestamp < cutoff_time <=> snapshots[i] \notin after
              /\ snapshots' = SelectSeq(snapshots, stays)
              /\ lastOp'.value = Len(snapshots) - Len(snapshots')]_vars

\* C24 witness: a prune removed a snapshot and kept one whose timestamp is
\* exactly the cutoff.
C24_Witness ==
    /\ lastOp.op = "prune_old_data"
    /\ lastOp.value >= 1
    /\ \E i \in DOMAIN snapshots :
           snapshots[i].timestamp = lastOp.at - Sec(lastOp.timestamp * SecondsPerDay)

\* C25 (checked under SpecRead): a stored snapshot stays in the series with
\* every field unchanged through every step, except that prune_old_data
\* removes it when its timestamp is below the cutoff; add_snapshot,
\* backfill_history, get_history and calculate_stats neither change nor remove
\* one, and the list get_history returns holds stored snapshots only.
C25_AppendOnly ==
    [][/\ \A i \in DOMAIN snapshots :
             \/ \E j \in DOMAIN snapshots' : snapshots'[j] = snapshots[i]
             \/ /\ PruneCall
                /\ snapshots[i].timestamp
                       < now - Sec(lastOp'.timestamp * SecondsPerDay)
       /\ lastOp'.op = "get_history" =>
             /\ snapshots' = snapshots
             /\ \A k \in DOMAIN lastOp'.detail.snapshots :
                    \E i \in DOMAIN snapshots :
                        lastOp'.detail.snapshots[k] = snapshots[i]]_vars

\* C25 witness: add_snapshot was given a timestamp within 30 s of a stored
\* snapshot and another value, and the stored snapshot is still there.
C25_Witness ==
    /\ lastOp.op = "add_snapshot"
    /\ lastOp.why = "duplicate"
    /\ \E i \in DOMAIN snapshots :
           /\ snapshots[i].timestamp # IntSeconds(lastOp.timestamp)
           /\ Abs(snapshots[i].timestamp - lastOp.timestamp) < Sec(DuplicateTolerance)
           /\ snapshots[i].total_value # Round2(PortfolioValue(lastOp.timestamp))

\* C26 (checked under SpecSave): save_portfolio_snapshot(force=True) with a
\* positive portfolio value is not skipped as too recent, even when a live
\* snapshot was accepted less than 60 s before.
C26_ForceOverridesDebounce ==
    /\ lastOp.op = "save_portfolio_snapshot"
    /\ lastOp.detail.force
    /\ lastOp.why # "no_value"
    => lastOp.why # "debounce"

\* The timestamps of the list calculate_stats was given.
StatsStamps == {statsArg[i].timestamp : i \in DOMAIN statsArg}

\* What C28 says of every field but change_percent: nothing but zeros for the
\* empty list; else start_value and end_value are the total_value of a
\* snapshot with the smallest and with the largest timestamp, wherever they
\* stand in the list, and both lie between min_value and max_value.
StatsStartEnd(st) ==
    IF statsArg = <<>> THEN st = NoStats
    ELSE /\ \E i \in DOMAIN statsArg :
               /\ statsArg[i].timestamp = MinOf(StatsStamps)
               /\ st.start_value = statsArg[i].total_value
         /\ \E j \in DOMAIN statsArg :
               /\ statsArg[j].timestamp = MaxOf(StatsStamps)
               /\ st.end_value = statsArg[j].total_value
         /\ st.min_value <= st.start_value /\ st.start_value <= st.max_value
         /\ st.min_value <= st.end_value /\ st.end_value <= st.max_value

\* C28 as amended (checked under SpecStats): calculate_stats returns the
\* zeros for the empty list; for a non-empty one start_value and end_value
\* are the values at the smallest and largest timestamp whatever the order of
\* the list, min_value <= start_value, end_value <= max_value, and
\* change_percent is (end - start) / start * 100 rounded to two decimals when
\* start > 0 and 0 otherwise.
C28_Stats ==
    lastOp.op = "calculate_stats" =>
        LET st == lastOp.detail.stats
        IN  /\ StatsStartEnd(st)
            /\ statsArg # <<>> =>
                  IF st.start_value > 0
                  THEN /\ st.change_percent % 10 = 0
                       /\ Abs(st.change_percent * st.start_value
                                - (st.end_value - st.start_value) * 100000)
                              <= 5 * st.start_value
                  ELSE st.change_percent = 0

\* C28 as stated: the same, with change_percent equal to
\* (end - start) / start * 100 itself.
C28_StatsAsClaimed ==
    lastOp.op = "calculate_stats" =>
        LET st == lastOp.detail.stats
        IN  /\ StatsStartEnd(st)
            /\ statsArg # <<>> =>
                  IF st.start_value > 0
                  THEN st.change_percent * st.start_value
                           = (st.end_value - st.start_value) * 100000
                  ELSE st.change_percent = 0

\* C28 witness: a list given newest first whose values go from 3 to 4; the
\* change is reported as 33.33.
C28_Witness ==
    /\ lastOp.op = "calculate_stats"
    /\ Len(statsArg) >= 2
    /\ statsArg[1].timestamp > statsArg[Len(statsArg)].timestamp
    /\ lastOp.detail.stats.start_value = 3000
    /\ lastOp.detail.stats.end_value = 4000
    /\ lastOp.detail.stats.change_percent = 33330

----------------------------------------------------------------------------
(* Further claims about the order handlers and the normalizer (SpecNorm)   *)

\* C27: a LIMIT buy given a total (quantity = 0, total > 0) with price <= 0
\* ends with the failure result before any call of the client: the normalizer
\* (the filter lookup) is not called and no order is submitted.
C27_BuyPriceValidated ==
    /\ Answered
    /\ req.op \in {"handle_buy_order", "api_buy"}
    /\ req.order_type = "LIMIT"
    /\ req.quantity = 0
    /\ req.total_usdt > 0
    /\ req.price <= 0
    => /\ resp.outcome = "False"
       /\ resp.norm = "not_called"
       /\ sent = <<>>

\* C27 witness: such a buy with a negative price was answered.
C27_Witness ==
    /\ Answered
    /\ req.op = "api_buy"
    /\ req.order_type = "LIMIT"
    /\ req.quantity = 0
    /\ req.total_usdt > 0
    /\ req.price < 0
    /\ resp.outcome = "False"

\* C29: with a LOT_SIZE stepSize > 0, a non-zero quantity returned by the
\* normalizer equals floor(min(raw, maxQty) / stepSize) * stepSize; it does
\* not exceed the raw quantity and lies less than one stepSize below the
\* clamped quantity.
C29_TruncatesTowardZero ==
    /\ Answered
    /\ req.op = "adjust_quantity"
    /\ LotStep
    /\ resp.norm = "returned"
    /\ resp.value # 0
    => LET maxQty  == SelectedBounds(filters, req.is_market).maxQty
           clamped == IF maxQty > 0 /\ req.quantity > maxQty
                      THEN maxQty ELSE req.quantity
       IN  /\ resp.value = (clamped \div filters.stepSize) * filters.stepSize
           /\ resp.value <= req.quantity
           /\ clamped - resp.value < filters.stepSize

----------------------------------------------------------------------------
(* Further claims about the liquidation run (Spec)                         *)

OrdersFor(side, a) ==
    {i \in DOMAIN orders : orders[i].side = side /\ orders[i].asset = a}

ZeroExecutionBuy(ords, i) ==
    /\ ords[i].side = "BUY"
    /\ ords[i].status # "ERROR"
    /\ ords[i].status = "EXPIRED" \/ ords[i].executedQty = 0

\* C32: when the dust-sweep BUY of an asset comes back with status EXPIRED or
\* executedQty = 0, the loop goes on with the next dust asset, and no SELL for
\* that asset is submitted afterwards.
C32_ZeroExecutionBuySkips ==
    [][/\ Len(orders') = Len(orders) + 1 /\ ZeroExecutionBuy(orders', Len(orders'))
          => /\ pc' = "sweep"
             /\ result' = "none"
             /\ dustIdx' = dustIdx + 1
       /\ \A i \in DOMAIN orders' :
             ZeroExecutionBuy(orders', i) =>
                 \A j \in DOMAIN orders' :
                     j > i => ~(/\ orders'[j].side = "SELL"
                                /\ orders'[j].asset = orders'[i].asset)]_vars

\* C32 witness: the BUY for the first dust asset expired unfilled and the BUY
\* for the next dust asset was submitted.
C32_Witness ==
    /\ Len(orders) = 2
    /\ orders[1].side = "BUY"
    /\ orders[1].status = "EXPIRED"
    /\ orders[1].executedQty = 0
    /\ orders[2].side = "BUY"
    /\ orders[2].asset # orders[1].asset

\* Phase 0 is over: every open order of the fetched list was sent its cancel
\* call and the call returned.
Phase0Over == Len(cancelCalls) = Len(open_orders) /\ ~cancelFailed

\* Phase 1 has not started: nothing is classified, nothing submitted.
BeforePhase1 ==
    /\ sellable_assets = <<>> /\ dust_assets = <<>> /\ no_pair_assets = <<>>
    /\ orders = <<>> /\ sellIdx = 0 /\ dustIdx = 0

\* C33: within a run the phases follow one another.  An order is submitted
\* only when every cancel call has returned and the classification is made, a
\* dust BUY only when Phase 2 has been through every sellable asset; prices
\* and balances are fetched only when every cancel call has returned; a cancel
\* call is sent only before Phase 1, and Phase 2 is at an asset only before
\* Phase 3 has started.
C33_PhaseOrder ==
    [][/\ Len(orders') = Len(orders) + 1 =>
             /\ Phase0Over
             /\ pc \notin {"get_open_orders", "cancel", "get_all_prices", "get_balances"}
             /\ orders'[Len(orders')].side = "BUY" =>
                    /\ sellIdx = Len(sellable_assets)
                    /\ dustIdx > 0
       /\ pc' \in {"get_all_prices", "get_balances"} =>
             Len(cancelCalls') = Len(open_orders') /\ ~cancelFailed'
       /\ pc = "get_balances" /\ pc' # pc => Phase0Over
       /\ Len(cancelCalls') = Len(cancelCalls) + 1 => BeforePhase1
       /\ sellIdx' > sellIdx => dustIdx = 0 /\ orders = <<>>]_vars

\* C33 witness: a run that cancelled an open order, classified and submitted
\* a dust BUY has completed.
C33_Witness ==
    /\ pc = "done"
    /\ result = "completed"
    /\ cancelCalls # <<>>
    /\ dust_assets # <<>>
    /\ orders # <<>>

\* Nothing of the run trades the asset: it is in neither the sellable nor the
\* dust list and no order is submitted for it.
Untraded(a) ==
    /\ Occurs(sellable_assets, a) = 0
    /\ Occurs(dust_assets, a) = 0
    /\ OrdersFor("BUY", a) = {}
    /\ OrdersFor("SELL", a) = {}

\* C34: an asset without a <asset>USDT price, and so every asset of the
\* unpaired list, is never in the sellable or the dust list and has no SELL
\* and no BUY submitted for it in the run; once the classification is made an
\* asset held without a price is in the unpaired list.
C34_UnpairedNeverTraded ==
    /\ \A a \in OtherSet : price[a] = 0 => Untraded(a)
    /\ \A i \in DOMAIN no_pair_assets :
           /\ price[no_pair_assets[i].asset] = 0
           /\ Untraded(no_pair_assets[i].asset)
    /\ dustIdx > 0 =>
           \A a \in OtherSet :
               price[a] = 0 /\ free[a] > 0 => Occurs(no_pair_assets, a) = 1

\* C34 witness: a run with an unpaired asset has submitted a dust BUY for the
\* other asset and completed.
C34_Witness ==
    /\ pc = "done"
    /\ result = "completed"
    /\ no_pair_assets # <<>>
    /\ orders # <<>>

\* C37: within a run each asset is in the dust list at most once, and at most
\* one dust BUY of 11 is submitted for it.
C37_DustOnce ==
    \A a \in AssetSet :
        /\ Occurs(dust_assets, a) <= 1
        /\ Cardinality(OrdersFor("BUY", a)) <= 1
        /\ \A i \in OrdersFor("BUY", a) :
               orders[i].quote = BuyAmount /\ Occurs(dust_assets, a) = 1

\* C37 witness: the sweep has been through two dust assets, the BUY of the
\* first came back unfilled, and each has exactly one BUY.
C37_Witness ==
    /\ pc = "done"
    /\ result = "completed"
    /\ Len(dust_assets) = 2
    /\ Len(orders) = 2
    /\ orders[1].executedQty = 0
    /\ \A i \in DOMAIN dust_assets :
           Cardinality(OrdersFor("BUY", dust_assets[i].asset)) = 1

----------------------------------------------------------------------------
(* Further claims about the normalizer (SpecNorm)                          *)

\* C38: the normalizer is idempotent: a quantity it returned is returned
\* unchanged when normalized again, so the quantity place_order hands to the
\* venue, normalized a second time, equals the quantity the handler computed.
C38_NormalizeIdempotent ==
    Answered /\ resp.norm = "returned" =>
        /\ call_adjust_quantity(filters, resp.value, PlainCall)
               = [raised |-> "none", value |-> resp.value]
        /\ \A i \in DOMAIN sent :
               sent[i].quantity # None => sent[i].quantity = resp.value

\* C38 witness: a LIMIT buy by total whose computed quantity is no multiple
\* of the step was normalized by the handler and again by place_order, and
\* the quantity sent is the handler's.
C38_Witness ==
    /\ Answered
    /\ req.op = "handle_buy_order"
    /\ LotStep
    /\ resp.norm = "returned"
    /\ resp.value > 0
    /\ resp.value # calc_qty(req.total_usdt, req.price)
    /\ sent # <<>>
    /\ sent[1].quantity = resp.value

----------------------------------------------------------------------------
(* Further claims about Phase 2 and Phase 3 of the liquidation run (Spec)  *)

----------------------------------------------------------------------------
(* Claims about the history file (SpecDisk)                                *)

\* C36: a call of add_snapshot that returns False (debounced or duplicate)
\* leaves the snapshot series, the metadata and the document in the history
\* file as they were before the call.
C36_RejectedAddChangesNothing ==
    [][AddSnapshot /\ lastOp'.op = "add_snapshot" /\ ~lastOp'.ret =>
          /\ snapshots' = snapshots
          /\ metadata' = metadata
          /\ data_file' = data_file]_vars

\* A call refused as a duplicate on a store that holds a snapshot, at a moment
\* the file is behind the store and could be written.
C36_Witness ==
    /\ lastOp.op = "add_snapshot"
    /\ ~lastOp.ret
    /\ lastOp.why = "duplicate"
    /\ snapshots # <<>>
    /\ data_file # Document(snapshots, metadata)
    /\ writable

----------------------------------------------------------------------------
(* Claims about the grid of a backfill (SpecGap)                           *)

\* The snapshots a step adds to the store.
AddedSnapshots ==
    {snapshots'[i] : i \in DOMAIN snapshots'} \ {snapshots[i] : i \in DOMAIN snapshots}

\* t is a point of the grid that starts at first, steps by step and ends by last.
OnGrid(t, first, last, step) == first <= t /\ t <= last /\ (t - first) % step = 0

\* No snapshot of the store before the call lies less than half a step from t.
Uncovered(t, step) ==
    \A j \in DOMAIN snapshots : 2 * Abs(t - snapshots[j].timestamp) >= step

\* C35 as stated: a backfill adds no snapshot less than half an interval from
\* a snapshot that existed when the call started, and its candidates are the
\* timestamps in [start_time, end_time] spaced one interval from start_time.
C35_GapAwareFromStart ==
    [][BackfillGap =>
          LET step == Sec(INTERVALS[lastOp'.detail.interval])
              start_time == lastOp'.timestamp
              cand == {lastOp'.detail.fetched[i] : i \in DOMAIN lastOp'.detail.fetched}
                          \cup {x.timestamp : x \in AddedSnapshots}
          IN  /\ \A x \in AddedSnapshots : Uncovered(x.timestamp, step)
              /\ \A t \in cand : OnGrid(t, start_time, now, step)]_vars

\* C35, amended: a backfill adds no snapshot less than half an interval from
\* a snapshot that existed when the call started, and its candidates are the
\* timestamps in [int(start_time), int(end_time)] spaced one interval from
\* int(start_time).
C35_GapAware ==
    [][BackfillGap =>
          LET step == Sec(INTERVALS[lastOp'.detail.interval])
              start_time == lastOp'.timestamp
              cand == {lastOp'.detail.fetched[i] : i \in DOMAIN lastOp'.detail.fetched}
                          \cup {x.timestamp : x \in AddedSnapshots}
          IN  /\ \A x \in AddedSnapshots : Uncovered(x.timestamp, step)
              /\ \A t \in cand :
                     /\ Uncovered(t, step)
                     /\ OnGrid(t, IntSeconds(start_time), IntSeconds(now), step)]_vars

\* A backfill from a start_time that is not a whole second has added
\* snapshots around a live snapshot that was there before, which lies on the
\* grid and is still the only snapshot within half an interval of its place.
C35_Witness ==
    /\ lastOp.op = "backfill_history"
    /\ lastOp.detail.kind = "backfill"
    /\ lastOp.timestamp # IntSeconds(lastOp.timestamp)
    /\ lastOp.value > 0
    /\ Len(lastOp.detail.grid) = Len(lastOp.detail.fetched)
    /\ \E i \in DOMAIN snapshots :
           /\ ~snapshots[i].is_backfilled
           /\ OnGrid(snapshots[i].timestamp, IntSeconds(lastOp.timestamp),
                     IntSeconds(lastOp.at), Sec(INTERVALS[lastOp.detail.interval]))
           /\ \A j \in DOMAIN snapshots :
                  j # i => 2 * Abs(snapshots[j].timestamp - snapshots[i].timestamp)
                              >= Sec(INTERVALS[lastOp.detail.interval])

====
